---- MODULE Spec2Model ----
(***************************************************************************)
(* kilar: port-to-process resolution and incremental caching engine.       *)
(*                                                                         *)
(* Specifications over one set of variables:                               *)
(*   SpecDiff     IncrementalPortManager::compute_changes, a pure function *)
(*   SpecChain    PortManager's lsof -> ss -> netstat tool chain           *)
(*   Spec         IncrementalPortManager (cache, change log) over the      *)
(*                AdaptivePortManager selector, the caller alone           *)
(*   SpecWatch    the caller beside the background monitoring task         *)
(*   SpecLog      Spec started with a change log already near its cap      *)
(*   SpecSelector AdaptivePortManager used directly                        *)
(*   SpecTable    ProcfsPortManager: one kernel table parsed and enriched  *)
(***************************************************************************)
EXTENDS Integers, Sequences, FiniteSets, TLC

VARIABLES
    \* ---- SpecDiff: one call of compute_changes
    old_processes, new_processes, changes, diff_pc,
    \* ---- SpecChain: one call of PortManager::list_processes / check_port
    chain_op, chain_protocol, chain_port, tool_outcome, chain_pc, invoked, chain_result,
    \* ---- Spec: PortCache (incremental.rs:18-23)
    processes, process_map, last_updated, change_log,
    \* ---- Spec: AdaptivePortManager (adaptive.rs:18-26) and its ProcfsPortManager
    mgr,
    \* ---- Spec: the clock (Instant::now()), in seconds
    now,
    \* ---- Spec: the synchronous caller of IncrementalPortManager (&mut self)
    sync_pc, sync_protocol, sync_port, sync_local, sync_ret,
    \* ---- Spec: the task spawned by start_monitoring
    bg_pc, bg_protocols, bg_idx, bg_local, bg_next_tick, aborted,
    \* ---- Spec: the two tokio RwLocks (write side)
    manager_lock, cache_lock,
    \* ---- Spec: observation (what the last step did; no effect on behaviour)
    obs,
    \* ---- SpecSelector: the host (is_procfs_available(); whether calls of
    \* ---- the kernel-table resolver can return Err) and the last operation
    procfs_available, procfs_faulty, sel_last, sel_ops,
    \* ---- SpecTable: a kernel table, the /proc/<pid>/fd links and the parse
    table_protocol, table_lines, fd_links, table_records, table_pc,
    \* ---- SpecTableFaults: the paths under /proc that cannot be read, what
    \* ---- list_processes returned, and what the Selector made of it
    unreadable, table_result, table_answer,
    \* ---- SpecDisplay: a record and the display path each implementation
    \* ---- of get_display_path returned for it
    display_info, display_path,
    \* ---- SpecPidCache: observation of the kernel-table resolver's pid
    \* ---- cache (when each entry was read from the process metadata
    \* ---- files; what the last resolution did)
    pid_read_at, pid_last,
    \* ---- SpecParse: one call of parse_lsof_output: the socket lines of the
    \* ---- listing, what the batched "lsof -p" will answer, the position in
    \* ---- the function, its locals, the subprocesses spawned so far and
    \* ---- the returned value
    parse_lines, batch_outcome, parse_pc, basic_process_info, process_details, spawned,
    parse_result,
    \* ---- SpecKill: one run of KillCommand::execute: its arguments, the host
    \* ---- (what check_port answers, what the user answers, how the process
    \* ---- takes signals, which tools can be spawned), the position, the
    \* ---- commands and waits of kill_process so far, the answer given at
    \* ---- the prompt, whether the process is alive, and the two results
    kill_args, kill_host, kill_pc, kill_trace, kill_confirmed, kill_alive,
    kill_process_ret, kill_ret

diffVars  == <<old_processes, new_processes, changes, diff_pc>>
chainVars == <<chain_op, chain_protocol, chain_port, tool_outcome, chain_pc, invoked,
               chain_result>>
cacheVars == <<processes, process_map, last_updated, change_log>>
syncVars  == <<sync_pc, sync_protocol, sync_port, sync_local, sync_ret>>
bgVars    == <<bg_pc, bg_protocols, bg_idx, bg_local, bg_next_tick, aborted>>
lockVars  == <<manager_lock, cache_lock>>
engineVars == <<cacheVars, mgr, now, syncVars, bgVars, lockVars, obs>>
selVars   == <<procfs_available, procfs_faulty, sel_last, sel_ops>>
tableVars == <<table_protocol, table_lines, fd_links, table_records, table_pc,
               unreadable, table_result, table_answer>>
displayVars == <<display_info, display_path>>
\* the variables of the specifications of single functions
pidVars == <<pid_read_at, pid_last>>
parseVars == <<parse_lines, batch_outcome, parse_pc, basic_process_info, process_details,
               spawned, parse_result>>
killVars == <<kill_args, kill_host, kill_pc, kill_trace, kill_confirmed, kill_alive,
              kill_process_ret, kill_ret>>
toolVars == <<parseVars, killVars>>
otherVars == <<tableVars, displayVars, pidVars, toolVars>>
vars == <<diffVars, chainVars, engineVars, selVars, otherVars>>

(***************************************************************************)
(* Bounds of the model                                                     *)
(***************************************************************************)
\* longest snapshot handed to compute_changes in SpecDiff
MaxSnapshotLen == 2
\* last instant of the clock in Spec
MaxTime == 5
\* get_processes, get_port and force_refresh calls made in one run of Spec
MaxOps == 3
\* the same calls made beside the monitoring task in one run of SpecWatch
MaxWatchOps == 2

(***************************************************************************)
(* Program constants                                                       *)
(***************************************************************************)
\* update_interval: Duration::from_secs(5)
DefaultUpdateInterval == 5
\* if cache.change_log.len() > 1000
ChangeLogCap == 1000
\* cache.change_log.drain(0..500)
ChangeLogDrain == 500
\* cache_ttl: Duration::from_secs(2)
CacheTtl == 2
\* last.elapsed() > Duration::from_secs(1800)
BenchmarkInterval == 1800

\* Option<T>: None is the empty set, Some(x) the singleton
None == {}
Some(x) == {x}
Unwrap(option) == CHOOSE x \in option : TRUE

Unknown == "Unknown"

(***************************************************************************)
(* ProcessInfo (port/mod.rs:9-20)                                          *)
(***************************************************************************)
ProcessInfo(pid, name, command, exe, cwd, port, protocol, address, inode) ==
    [pid |-> pid, name |-> name, command |-> command,
     executable_path |-> exe, working_directory |-> cwd,
     port |-> port, protocol |-> protocol, address |-> address, inode |-> inode]

\* sequences over S of length at most n
SeqUpTo(S, n) == UNION {[1..k -> S] : k \in 0..n}

\* the elements of a sequence
Range(s) == {s[i] : i \in DOMAIN s}

\* every enumeration of a finite set as a sequence (a HashMap's iteration order)
Orders(S) ==
    {f \in [1..Cardinality(S) -> S] : \A i, j \in 1..Cardinality(S) : f[i] = f[j] => i = j}

(***************************************************************************)
(* compute_changes (incremental.rs:259-314)                                *)
(***************************************************************************)
\* iter().map(|p| (p.port, p)).collect::<HashMap<u16, &ProcessInfo>>():
\* a later record of the same port replaces an earlier one
PortMap(procs) ==
    [port \in {procs[i].port : i \in DOMAIN procs} |->
        LET last == CHOOSE i \in DOMAIN procs :
                        /\ procs[i].port = port
                        /\ \A j \in DOMAIN procs : procs[j].port = port => j <= i
        IN  procs[last]]

process_changed_ignoring_command(old, new) ==
    \/ old.pid # new.pid
    \/ old.name # new.name
    \/ old.executable_path # new.executable_path

process_changed(old, new) ==
    \/ old.pid # new.pid
    \/ old.name # new.name
    \/ old.command # new.command
    \/ old.executable_path # new.executable_path

PortChange(timestamp, change_type, process_info) ==
    [timestamp |-> timestamp, change_type |-> change_type, process_info |-> process_info]

\* compute_changes with a clock read for each group of events
compute_changes_reclocked(old, new, t) ==
    LET old_map == PortMap(old)
        new_map == PortMap(new)
        added    == {PortChange(t + 1, "Added", new_map[p]) :
                        p \in {q \in DOMAIN new_map : q \notin DOMAIN old_map}}
        removed  == {PortChange(t, "Removed", old_map[p]) :
                        p \in {q \in DOMAIN old_map : q \notin DOMAIN new_map}}
        modified == {PortChange(t, "Modified", new_map[p]) :
                        p \in {q \in DOMAIN new_map :
                                 /\ q \in DOMAIN old_map
                                 /\ process_changed(old_map[q], new_map[q])}}
    IN  {a \o r \o m : a \in Orders(added), r \in Orders(removed), m \in Orders(modified)}

\* The three loops run over HashMaps, so the order inside each group is any
\* order; the result is one of these sequences.
compute_changes(old, new, t) ==
    LET old_map == PortMap(old)
        new_map == PortMap(new)
        added    == {PortChange(t, "Added", new_map[p]) :
                        p \in {q \in DOMAIN new_map : q \notin DOMAIN old_map}}
        removed  == {PortChange(t, "Removed", old_map[p]) :
                        p \in {q \in DOMAIN old_map : q \notin DOMAIN new_map}}
        modified == {PortChange(t, "Modified", new_map[p]) :
                        p \in {q \in DOMAIN new_map :
                                 /\ q \in DOMAIN old_map
                                 /\ process_changed(old_map[q], new_map[q])}}
    IN  {a \o r \o m : a \in Orders(added), r \in Orders(removed), m \in Orders(modified)}

(***************************************************************************)
(* SpecDiff: compute_changes on every pair of bounded snapshots            *)
(***************************************************************************)
DiffBase(port) ==
    ProcessInfo(1, "node", "node app.js", "/usr/bin/node", "/srv/app", port, "tcp", "*", None)

\* the base record of port 80, one record differing from it in one field each,
\* and a record of a second port
DiffRecords ==
    { DiffBase(80),
      [DiffBase(80) EXCEPT !.pid = 2],
      [DiffBase(80) EXCEPT !.name = "deno"],
      [DiffBase(80) EXCEPT !.command = "node other.js"],
      [DiffBase(80) EXCEPT !.executable_path = "/opt/node"],
      [DiffBase(80) EXCEPT !.working_directory = "/tmp"],
      DiffBase(443) }

DiffSnapshots == SeqUpTo(DiffRecords, MaxSnapshotLen)

DiffIdle ==
    /\ old_processes = <<>>
    /\ new_processes = <<>>
    /\ changes = <<>>
    /\ diff_pc = "unused"

DiffInit ==
    /\ old_processes \in DiffSnapshots
    /\ new_processes \in DiffSnapshots
    /\ changes = <<>>
    /\ diff_pc = "call"

ComputeChanges ==
    /\ diff_pc = "call"
    /\ changes' \in compute_changes(old_processes, new_processes, now)
    /\ diff_pc' = "done"
    /\ UNCHANGED <<old_processes, new_processes>>

(***************************************************************************)
(* Results and errors (error.rs:8-25, 27-56, 60-64)                         *)
(***************************************************************************)
Ok(value) == [ok |-> TRUE, value |-> value]
Err(error) == [ok |-> FALSE, error |-> error]

\* Error::CommandFailed(msg); the message names the tool that failed and may
\* carry the hint about missing system tools itself
CommandFailed(tool, hint) == [kind |-> "CommandFailed", names |-> {tool}, hint |-> hint]

\* impl From<std::io::Error> for Error: the message is the OS error text only
IoError == [kind |-> "IoError", names |-> {}, hint |-> FALSE]

\* impl fmt::Display for Error: whether the displayed text says
\* "Make sure required system tools are installed"
DisplayHasHint(error) ==
    \/ error.hint
    \/ /\ error.kind = "CommandFailed"
       /\ error.names \cap {"lsof", "netstat"} # {}

(***************************************************************************)
(* The host as the tool chain sees it: the processes that ps / lsof -p      *)
(* describe (port/mod.rs:135-208, 1079-1165)                                *)
(***************************************************************************)
\* ps -p <pid> -o command=
PsCommand(pid) ==
    CASE pid = 1 -> "/usr/bin/node server.js"
      [] pid = 2 -> "/usr/sbin/nginx -g daemon"
      [] pid = 3 -> "/usr/bin/curl example.org"
      [] OTHER   -> Unknown

\* lsof -p <pid>: the "txt REG" line
LsofExecutable(pid) ==
    CASE pid = 1 -> "/usr/bin/node"
      [] pid = 2 -> "/usr/sbin/nginx"
      [] pid = 3 -> "/usr/bin/curl"
      [] OTHER   -> Unknown

\* lsof -p <pid>: the "cwd DIR" line
LsofWorkingDirectory(pid) ==
    CASE pid = 1 -> "/srv/app"
      [] pid = 2 -> "/"
      [] pid = 3 -> "/home/user"
      [] OTHER   -> Unknown

\* command_line.split_whitespace().next(); "" when there is no word
FirstWord(command_line) ==
    CASE command_line = "/usr/bin/node server.js" -> "/usr/bin/node"
      [] command_line = "/usr/sbin/nginx -g daemon" -> "/usr/sbin/nginx"
      [] command_line = "/usr/bin/curl example.org" -> "/usr/bin/curl"
      [] command_line = "" -> ""
      [] OTHER -> command_line

\* first_part.split('/').next_back()
LastPathComponent(path) ==
    CASE path = "/usr/bin/node" -> "node"
      [] path = "/usr/sbin/nginx" -> "nginx"
      [] path = "/usr/bin/curl" -> "curl"
      [] OTHER -> path

\* extract_process_name (port/mod.rs:1027-1040)
extract_process_name(command_line) ==
    IF FirstWord(command_line) = "" THEN Unknown
    ELSE LastPathComponent(FirstWord(command_line))

\* extract_executable_path (port/mod.rs:1042-1053)
extract_executable_path(command_line) ==
    IF FirstWord(command_line) = "" THEN Unknown ELSE FirstWord(command_line)

(***************************************************************************)
(* Tool-chain resolver: PortManager (port/mod.rs)                          *)
(* A tool run ends in a spawn error, a non-zero exit or success with the   *)
(* socket lines of its stdout; a line is what the columns of one socket    *)
(* hold: command name, pid, protocol, local address, local port, and the   *)
(* port of the peer for a connected socket (0 for a listening one, whose   *)
(* name column is "address:port"; a connected one's is                     *)
(* "address:port->peer_address:peer").                                     *)
(***************************************************************************)
SocketLine(command, pid, protocol, address, port) ==
    [command |-> command, pid |-> pid, protocol |-> protocol, address |-> address,
     port |-> port, peer |-> 0]

ConnectionLine(command, pid, protocol, address, port, peer) ==
    [command |-> command, pid |-> pid, protocol |-> protocol, address |-> address,
     port |-> port, peer |-> peer]

\* the lines a tool prints when its arguments select listening sockets
\* (-sTCP:LISTEN, -lt, -t -l)
Listening(lines) == SelectSeq(lines, LAMBDA line : line.peer = 0)

\* the lines "lsof -n -P -iTCP:<port>" prints: the sockets whose local or
\* remote port is <port>, in any state
SelectedByPort(lines, port) ==
    SelectSeq(lines, LAMBDA line : line.port = port \/ line.peer = port)

SpawnError == [status |-> "spawn_error", lines |-> <<>>]
NonZeroExit == [status |-> "nonzero_exit", lines |-> <<>>]
Success(lines) == [status |-> "success", lines |-> lines]

Failed(outcome) == outcome.status \in {"spawn_error", "nonzero_exit"}

\* get_process_command(pid).await.unwrap_or_else(|_| "Unknown")
get_process_command(pid) == PsCommand(pid)

\* get_process_executable (port/mod.rs:1095-1134): the txt REG path of
\* lsof -p, else the ps command line
get_process_executable(pid) ==
    IF LsofExecutable(pid) # Unknown THEN LsofExecutable(pid) ELSE PsCommand(pid)

\* get_process_working_directory (port/mod.rs:1136-1165)
get_process_working_directory(pid) == LsofWorkingDirectory(pid)

\* the record the second pass of parse_lsof_output builds (port/mod.rs:487-523)
LsofRecord(line) ==
    LET full_command == line.command
        details_exe == LsofExecutable(line.pid)
    IN  ProcessInfo(line.pid, extract_process_name(full_command), full_command,
                    IF details_exe # Unknown THEN details_exe
                    ELSE extract_executable_path(full_command),
                    LsofWorkingDirectory(line.pid), line.port, line.protocol,
                    line.address, None)

\* parse_lsof_output (port/mod.rs:411-526)
parse_lsof_output(lines) == [i \in DOMAIN lines |-> LsofRecord(lines[i])]

\* the record parse_ss_output / parse_netstat_unix_output build
\* (port/mod.rs:805-841, 985-1021)
PsRecord(line) ==
    LET full_command == get_process_command(line.pid)
        path == get_process_executable(line.pid)
    IN  ProcessInfo(line.pid, extract_process_name(full_command), full_command,
                    IF path = full_command THEN extract_executable_path(full_command)
                    ELSE path,
                    get_process_working_directory(line.pid), line.port, line.protocol,
                    line.address, None)

\* parse_ss_output (port/mod.rs:756-845)
parse_ss_output(lines) == [i \in DOMAIN lines |-> PsRecord(lines[i])]

\* parse_netstat_unix_output (port/mod.rs:936-1025)
parse_netstat_unix_output(lines) == [i \in DOMAIN lines |-> PsRecord(lines[i])]

\* try_lsof / try_lsof_with_callback (port/mod.rs:210-213, 286-339)
try_lsof(outcome, protocol) ==
    IF Failed(outcome) THEN Err(CommandFailed("lsof", TRUE))
    ELSE Ok(parse_lsof_output(Listening(outcome.lines)))

\* try_ss (port/mod.rs:341-373)
try_ss(outcome, protocol) ==
    IF Failed(outcome) THEN Err(CommandFailed("ss", FALSE))
    ELSE Ok(parse_ss_output(Listening(outcome.lines)))

\* try_netstat_unix (port/mod.rs:375-409)
try_netstat_unix(outcome, protocol) ==
    IF Failed(outcome) THEN Err(CommandFailed("netstat", FALSE))
    ELSE Ok(parse_netstat_unix_output(Listening(outcome.lines)))

\* whether the decimal text of a starts the decimal text of b
RECURSIVE IsDecimalPrefix(_, _)
IsDecimalPrefix(a, b) == a = b \/ (b >= 10 /\ IsDecimalPrefix(a, b \div 10))

\* the record the *_specific_port functions return for a line
\* (port/mod.rs:253-277, 572-606, 903-927)
SpecificPortRecord(line, port, protocol) ==
    LET full_command == get_process_command(line.pid)
    IN  ProcessInfo(line.pid, extract_process_name(full_command), full_command,
                    get_process_executable(line.pid),
                    get_process_working_directory(line.pid), port, protocol,
                    line.address, None)

\* the first of the accepted lines (hits: their indices) as Some(record),
\* else None
FirstMatch(lines, hits, port, protocol) ==
    IF hits = {} THEN None
    ELSE Some(SpecificPortRecord(lines[CHOOSE i \in hits : \A j \in hits : i <= j],
                                 port, protocol))

\* name_col.contains(&format!(":{}", port)) (port/mod.rs:252): ":<port>" is
\* found in the name column where the digits of the local port, or of the
\* peer's port, start with those of port
NameColumnContains(line, port) ==
    \/ IsDecimalPrefix(port, line.port)
    \/ line.peer # 0 /\ IsDecimalPrefix(port, line.peer)

\* try_lsof_specific_port (port/mod.rs:216-284):
\* output().await? ; !success => Ok(None) ; name_col.contains(":{port}")
try_lsof_specific_port(outcome, port, protocol) ==
    CASE outcome.status = "spawn_error" -> Err(IoError)
      [] outcome.status = "nonzero_exit" -> Ok(None)
      [] OTHER ->
            LET printed == SelectedByPort(outcome.lines, port)
                hits == {i \in DOMAIN printed : NameColumnContains(printed[i], port)}
            IN  Ok(FirstMatch(printed, hits, port, protocol))

\* try_ss_specific_port (port/mod.rs:529-617): local_addr.ends_with(":{port}")
try_ss_specific_port(outcome, port, protocol) ==
    CASE outcome.status = "spawn_error" -> Err(IoError)
      [] outcome.status = "nonzero_exit" -> Ok(None)
      [] OTHER ->
            LET printed == Listening(outcome.lines)
                hits == {i \in DOMAIN printed : printed[i].port = port}
            IN  Ok(FirstMatch(printed, hits, port, protocol))

\* try_netstat_specific_port (port/mod.rs:848-934)
try_netstat_specific_port(outcome, port, protocol) ==
    CASE outcome.status = "spawn_error" -> Err(IoError)
      [] outcome.status = "nonzero_exit" -> Ok(None)
      [] OTHER ->
            LET printed == Listening(outcome.lines)
                hits == {i \in DOMAIN printed : printed[i].port = port}
            IN  Ok(FirstMatch(printed, hits, port, protocol))

\* the order of the chain in list_processes_unix and check_port_unix_optimized
ChainOrderSsFirst == <<"ss", "lsof", "netstat">>

ChainOrder == <<"lsof", "ss", "netstat">>

\* one tool of the chain run for the operation
TryTool(tool, op, outcome, port, protocol) ==
    CASE tool = "lsof" /\ op = "list_processes" -> try_lsof(outcome, protocol)
      [] tool = "ss" /\ op = "list_processes" -> try_ss(outcome, protocol)
      [] tool = "netstat" /\ op = "list_processes" -> try_netstat_unix(outcome, protocol)
      [] tool = "lsof" /\ op = "check_port" -> try_lsof_specific_port(outcome, port, protocol)
      [] tool = "ss" /\ op = "check_port" -> try_ss_specific_port(outcome, port, protocol)
      [] OTHER -> try_netstat_specific_port(outcome, port, protocol)

\* "if let Ok(result) = ... { return Ok(result); }" continues with the next
\* tool after an Err and the last tool's result is returned as it is
ReturnsAlways(position, result) == TRUE

Returns(position, result) == result.ok \/ position = Len(ChainOrder)

(***************************************************************************)
(* SpecChain: list_processes_unix (port/mod.rs:69-80; with progress        *)
(* 102-132) and check_port_unix_optimized (port/mod.rs:83-100), one tool   *)
(* per step                                                                *)
(***************************************************************************)
ChainLines ==
    { SocketLine("node", 1, "tcp", "*", 80),
      SocketLine("nginx", 2, "tcp", "127.0.0.1", 8080),
      ConnectionLine("curl", 3, "tcp", "10.0.0.5", 51234, 80) }

ToolOutcomes == {SpawnError, NonZeroExit} \cup {Success(l) : l \in SeqUpTo(ChainLines, 1)}

ChainIdle ==
    /\ chain_op = "unused"
    /\ chain_protocol = "tcp"
    /\ chain_port = 0
    /\ tool_outcome = [t \in {"lsof", "ss", "netstat"} |-> SpawnError]
    /\ chain_pc = 0
    /\ invoked = <<>>
    /\ chain_result = None

ChainInit ==
    /\ chain_op \in {"list_processes", "check_port"}
    /\ chain_protocol = "tcp"
    /\ chain_port \in {80, 8080}
    /\ tool_outcome \in [{"lsof", "ss", "netstat"} -> ToolOutcomes]
    /\ chain_pc = 1
    /\ invoked = <<>>
    /\ chain_result = None

\* run the tool at position chain_pc of the chain
ChainStep(op) ==
    /\ chain_op = op
    /\ chain_pc \in 1..Len(ChainOrder)
    /\ LET tool == ChainOrder[chain_pc]
           result == TryTool(tool, chain_op, tool_outcome[tool], chain_port, chain_protocol)
       IN  /\ invoked' = Append(invoked, tool)
           /\ IF Returns(chain_pc, result)
              THEN chain_result' = Some(result) /\ chain_pc' = 0
              ELSE chain_result' = chain_result /\ chain_pc' = chain_pc + 1
    /\ UNCHANGED <<chain_op, chain_protocol, chain_port, tool_outcome>>

\* list_processes_unix (port/mod.rs:69-80)
list_processes_unix == ChainStep("list_processes")

\* check_port_unix_optimized (port/mod.rs:83-100)
check_port_unix_optimized == ChainStep("check_port")

(***************************************************************************)
(* Finite maps (HashMap)                                                   *)
(***************************************************************************)
EmptyMap == [k \in {} |-> None]

\* an insert that is lost
MapPutDropped(m, key, value) == m

MapPut(m, key, value) == [k \in DOMAIN m \cup {key} |-> IF k = key THEN value ELSE m[k]]

MapRemove(m, keys) == [k \in DOMAIN m \ keys |-> m[k]]

\* map.get(key).cloned().unwrap_or_default() for a Vec
GetOrDefault(m, key) == IF key \in DOMAIN m THEN m[key] ELSE <<>>

(***************************************************************************)
(* The host as Spec sees it: at every resolver call the listening sockets  *)
(* of a protocol are one of a few states; a socket has an owner pid and    *)
(* an inode.                                                               *)
(***************************************************************************)
HostSocket(protocol, port, pid, inode) ==
    [protocol |-> protocol, port |-> port, pid |-> pid, inode |-> inode, address |-> "*"]

HostStates(protocol) ==
    CASE protocol = "tcp" ->
            { <<>>, <<HostSocket("tcp", 80, 1, 101)>>, <<HostSocket("tcp", 80, 2, 102)>> }
      [] protocol = "udp" ->
            { <<>>, <<HostSocket("udp", 80, 1, 103), HostSocket("udp", 443, 1, 104)>> }
      [] OTHER -> { <<>> }

\* lsof COMMAND column of a pid
LsofCommandName(pid) ==
    CASE pid = 1 -> "node"
      [] pid = 2 -> "nginx"
      [] pid = 3 -> "curl"
      [] OTHER   -> Unknown

\* the list the tool chain parses from a host state
LegacySnapshot(host) ==
    parse_lsof_output([i \in DOMAIN host |->
        SocketLine(LsofCommandName(host[i].pid), host[i].pid, host[i].protocol,
                   host[i].address, host[i].port)])

\* PortManager::list_processes as the Selector sees it: the chain's error
\* or the list of some host state
LegacyListResults(protocol) ==
    {Err(CommandFailed("netstat", FALSE))}
        \cup {Ok(LegacySnapshot(h)) : h \in HostStates(protocol)}

\* PortManager::check_port as the Selector sees it
LegacyCheckResults(port, protocol) ==
    {Err(IoError), Ok(None)}
        \cup {Ok(Some(SpecificPortRecord(h[i], port, protocol))) :
                h \in {x \in HostStates(protocol) : \E i \in DOMAIN x : x[i].port = port},
                i \in {1}}

(***************************************************************************)
(* Kernel-table resolver: ProcfsPortManager (port/procfs.rs)               *)
(***************************************************************************)
\* format!("/proc/{pid}/comm") and the like
ProcPath(pid, file) == "/proc/" \o ToString(pid) \o "/" \o file

\* read_process_details that gives up at the first file it cannot read
read_process_details_all_or_nothing(pid) ==
    IF \E file \in {"comm", "cmdline", "cwd", "exe"} : ProcPath(pid, file) \in unreadable
    THEN [name |-> Unknown, command |-> Unknown, executable_path |-> Unknown,
          working_directory |-> Unknown]
    ELSE [name |-> LsofCommandName(pid), command |-> PsCommand(pid),
          executable_path |-> LsofExecutable(pid),
          working_directory |-> LsofWorkingDirectory(pid)]

\* read_process_details (procfs.rs:317-360): every field starts as
\* "Unknown"; comm gives the name, cmdline the command and its first word
\* as executable, cwd the working directory, exe the executable; a file
\* that cannot be read leaves its fields as they are
read_process_details(pid) ==
    LET cmdline == IF ProcPath(pid, "cmdline") \in unreadable THEN Unknown
                   ELSE PsCommand(pid)
    IN  [name |-> IF ProcPath(pid, "comm") \in unreadable THEN Unknown
                  ELSE LsofCommandName(pid),
         command |-> cmdline,
         executable_path |->
            IF ProcPath(pid, "exe") \notin unreadable THEN LsofExecutable(pid)
            ELSE IF cmdline # Unknown THEN FirstWord(cmdline)
            ELSE Unknown,
         working_directory |-> IF ProcPath(pid, "cwd") \in unreadable THEN Unknown
                               ELSE LsofWorkingDirectory(pid)]

\* update_process_details: the cache is used when "now - last_update < ttl"
\* although last_update is one instant for the whole cache
CacheUsableAlways(pid_cache, last_update, pid, t) == pid \in DOMAIN pid_cache

CacheUsable(pid_cache, last_update, pid, t) ==
    t - last_update < CacheTtl /\ pid \in DOMAIN pid_cache

\* enrich_with_process_info + update_process_details (procfs.rs:235-314),
\* socket by socket; a socket with no owning pid (pid 0) is dropped;
\* "read" is the set of pids whose metadata files were read
RECURSIVE EnrichFrom(_, _, _, _, _, _)
EnrichFrom(host, i, pid_cache, last_update, t, acc) ==
    IF i > Len(host)
    THEN [records |-> acc, pid_cache |-> pid_cache, last_update |-> last_update,
          read |-> {}]
    ELSE LET s == host[i]
             Rec(d) == ProcessInfo(s.pid, d.name, d.command, d.executable_path,
                                   d.working_directory, s.port, s.protocol, s.address,
                                   Some(s.inode))
         IN  IF s.pid = 0
             THEN EnrichFrom(host, i + 1, pid_cache, last_update, t, acc)
             ELSE IF CacheUsable(pid_cache, last_update, s.pid, t)
             THEN EnrichFrom(host, i + 1, pid_cache, last_update, t,
                             Append(acc, Rec(pid_cache[s.pid])))
             ELSE [EnrichFrom(host, i + 1,
                              MapPut(pid_cache, s.pid, read_process_details(s.pid)), t, t,
                              Append(acc, Rec(read_process_details(s.pid))))
                   EXCEPT !.read = @ \cup {s.pid}]

\* ProcfsPortManager::list_processes (procfs.rs:33-56) on a host state:
\* the records and the manager with its pid cache updated
ProcfsList(m, host, t) ==
    LET e == EnrichFrom(host, 1, m.pid_cache, m.last_update, t, <<>>)
    IN  [result |-> Ok(e.records),
         mgr |-> [m EXCEPT !.pid_cache = e.pid_cache, !.last_update = e.last_update]]

\* processes.into_iter().find(|p| p.port == port)
FindPort(records, port) ==
    LET hits == {i \in DOMAIN records : records[i].port = port}
    IN  IF hits = {} THEN None
        ELSE Some(records[CHOOSE i \in hits : \A j \in hits : i <= j])

\* ProcfsPortManager::check_port (procfs.rs:59-62)
ProcfsCheck(m, host, port, t) ==
    [result |-> Ok(FindPort(ProcfsList(m, host, t).result.value, port)),
     mgr |-> ProcfsList(m, host, t).mgr]

\* ProcfsPortManager::clear_cache (procfs.rs:386-389)
ProcfsKeepCache(m, t) == [m EXCEPT !.last_update = t - CacheTtl]

ProcfsClearCache(m, t) == [m EXCEPT !.pid_cache = EmptyMap, !.last_update = t - CacheTtl]

(***************************************************************************)
(* Kernel tables: /proc/net/tcp and /proc/net/udp (procfs.rs:102-188,      *)
(* 235-285).  A table is the sequence of its lines, a line the sequence of *)
(* its whitespace-separated fields, a number field the sequence of its     *)
(* characters: 0..15 for the hexadecimal digits, NotADigit for any other   *)
(* character.  Only the IPv4 tables are modelled.                          *)
(***************************************************************************)
NotADigit == 16

\* u64::from_str_radix / str::parse on a field without sign: None for an
\* empty field or a character that is no digit of the radix
RECURSIVE ParseRadix(_, _, _, _)
ParseRadix(digits, radix, i, acc) ==
    IF digits = <<>> THEN None
    ELSE IF i > Len(digits) THEN Some(acc)
    ELSE IF digits[i] >= radix THEN None
    ELSE ParseRadix(digits, radix, i + 1, acc * radix + digits[i])

\* u8::from_str_radix(&hex[i * 2..(i + 1) * 2], 16).unwrap_or(0), i from 0
HexByte(hex, i) ==
    LET byte == ParseRadix(SubSeq(hex, 2 * i + 1, 2 * i + 2), 16, 1, 0)
    IN  IF byte = None THEN 0 ELSE Unwrap(byte)

\* parse_ipv4_address that writes the bytes in the order of the field
parse_ipv4_address_unreversed(hex) ==
    IF Len(hex) # 8 THEN "*"
    ELSE IF \A i \in 0..3 : HexByte(hex, i) = 0 THEN "*"
    ELSE ToString(HexByte(hex, 0)) \o "." \o ToString(HexByte(hex, 1)) \o "."
            \o ToString(HexByte(hex, 2)) \o "." \o ToString(HexByte(hex, 3))

\* parse_ipv4_address (procfs.rs:191-205)
parse_ipv4_address(hex) ==
    IF Len(hex) # 8 THEN "*"
    ELSE IF \A i \in 0..3 : HexByte(hex, i) = 0 THEN "*"
    ELSE ToString(HexByte(hex, 3)) \o "." \o ToString(HexByte(hex, 2)) \o "."
            \o ToString(HexByte(hex, 1)) \o "." \o ToString(HexByte(hex, 0))

\* parse_address (procfs.rs:174-188) on a field [colon, addr, port]: the
\* text before and after its last colon; u16::from_str_radix(port_hex, 16)
parse_address(field) ==
    LET port == ParseRadix(field.port, 16, 1, 0)
    IN  IF ~field.colon \/ port = None \/ Unwrap(port) > 65535 THEN None
        ELSE Some([address |-> parse_ipv4_address(field.addr), port |-> Unwrap(port)])

\* the body of the loops of parse_tcp_content and parse_udp_content
\* (procfs.rs:105-134, 144-167): the record a line gives, if any; parts[1],
\* parts[3] and parts[9] of the code are parts[2], parts[4] and parts[10]
PartialRecord(parts, protocol, listening_only) ==
    IF Len(parts) < 10 THEN None
    ELSE LET local == parse_address(parts[2])
             inode == ParseRadix(parts[10], 10, 1, 0)
         IN  IF local = None \/ (listening_only /\ parts[4] # "0A") \/ inode = None
             THEN None
             ELSE Some(ProcessInfo(0, "", "", "", "", Unwrap(local).port, protocol,
                                   Unwrap(local).address, inode))

\* for line in content.lines().skip(1) { ... processes.push(..) }
RECURSIVE CollectRecords(_, _, _, _, _)
CollectRecords(content, i, protocol, listening_only, acc) ==
    IF i > Len(content) THEN acc
    ELSE LET record == PartialRecord(content[i], protocol, listening_only)
         IN  CollectRecords(content, i + 1, protocol, listening_only,
                            IF record = None THEN acc ELSE Append(acc, Unwrap(record)))

\* parse_udp_content that keeps the listening lines only
parse_udp_content_listening(content) == CollectRecords(content, 2, "udp", TRUE, <<>>)

\* parse_tcp_content (procfs.rs:102-138)
parse_tcp_content(content) == CollectRecords(content, 2, "tcp", TRUE, <<>>)

\* parse_udp_content (procfs.rs:141-171)
parse_udp_content(content) == CollectRecords(content, 2, "udp", FALSE, <<>>)

\* the pid the inode of a socket leads to, taken from the first process
\* scanned
OwnerOfFirstScanned(links, inode) == IF links = <<>> THEN 0 ELSE links[1].pid

\* inode_to_pid.get(&inode) after scan_process_fds ran over every process
\* (procfs.rs:240-249, 268-285): links are the socket:[inode] links in the
\* order they are scanned, insert keeps the last pid; 0 where none
OwnerOf(links, inode) ==
    LET holders == {i \in DOMAIN links : links[i].inode = inode}
    IN  IF holders = {} THEN 0
        ELSE links[CHOOSE i \in holders : \A j \in holders : j <= i].pid

\* the links the scan finds (procfs.rs:240-249, 268-272): none when /proc
\* cannot be listed, none of a process whose fd directory cannot be read
ScannedLinks(links) ==
    IF "/proc" \in unreadable THEN <<>>
    ELSE SelectSeq(links, LAMBDA l : ProcPath(l.pid, "fd") \notin unreadable)

\* enrich_with_process_info (procfs.rs:235-265)
enrich_with_process_info(records, links, pid_cache, last_update, t) ==
    EnrichFrom([i \in DOMAIN records |->
                    [protocol |-> records[i].protocol, port |-> records[i].port,
                     pid |-> OwnerOf(ScannedLinks(links), Unwrap(records[i].inode)),
                     inode |-> Unwrap(records[i].inode),
                     address |-> records[i].address]],
               1, pid_cache, last_update, t, <<>>)

(***************************************************************************)
(* get_display_path (port/mod.rs:1055-1077, port/procfs.rs:363-383,        *)
(* commands/list.rs:472-493)                                               *)
(***************************************************************************)
\* str::contains(needle)
Contains(text, needle) ==
    \E i \in 1..(Len(text) - Len(needle) + 1) :
        SubSeq(text, i, i + Len(needle) - 1) = needle

\* PortManager::get_display_path (port/mod.rs:1055-1077)
get_display_path(process_info) ==
    IF /\ process_info.working_directory # "/"
       /\ process_info.working_directory # "Unknown"
       /\ \/ Contains(process_info.executable_path, "/node")
          \/ Contains(process_info.executable_path, "/python")
          \/ Contains(process_info.executable_path, "/ruby")
          \/ Contains(process_info.executable_path, "/java")
          \/ Contains(process_info.command, "npm")
          \/ Contains(process_info.command, "yarn")
          \/ Contains(process_info.command, "pnpm")
          \/ Contains(process_info.command, "next")
          \/ Contains(process_info.command, "serve")
          \/ Contains(process_info.command, "dev")
    THEN process_info.working_directory
    ELSE process_info.executable_path

\* a get_display_path that always shows the executable
get_display_path_executable(process_info) == process_info.executable_path

\* ProcfsPortManager::get_display_path (port/procfs.rs:363-383)
procfs_get_display_path(process_info) ==
    IF /\ process_info.working_directory # "/"
       /\ process_info.working_directory # "Unknown"
       /\ \/ Contains(process_info.executable_path, "/node")
          \/ Contains(process_info.executable_path, "/python")
          \/ Contains(process_info.executable_path, "/ruby")
          \/ Contains(process_info.executable_path, "/java")
          \/ Contains(process_info.command, "npm")
          \/ Contains(process_info.command, "yarn")
          \/ Contains(process_info.command, "pnpm")
          \/ Contains(process_info.command, "next")
          \/ Contains(process_info.command, "serve")
          \/ Contains(process_info.command, "dev")
    THEN process_info.working_directory
    ELSE process_info.executable_path

\* ListCommand::get_display_path (commands/list.rs:472-493)
list_get_display_path(process_info) ==
    IF /\ process_info.working_directory # "/"
       /\ process_info.working_directory # "Unknown"
       /\ \/ Contains(process_info.executable_path, "/node")
          \/ Contains(process_info.executable_path, "/python")
          \/ Contains(process_info.executable_path, "/ruby")
          \/ Contains(process_info.executable_path, "/java")
          \/ Contains(process_info.command, "npm")
          \/ Contains(process_info.command, "yarn")
          \/ Contains(process_info.command, "pnpm")
          \/ Contains(process_info.command, "next")
          \/ Contains(process_info.command, "serve")
          \/ Contains(process_info.command, "dev")
    THEN process_info.working_directory
    ELSE process_info.executable_path

(***************************************************************************)
(* Selector: AdaptivePortManager (port/adaptive.rs).  The manager state is *)
(* one record: the Selector's fields and the kernel-table resolver's       *)
(* pid_cache and last_update.  An operation is the set of its possible     *)
(* outcomes [result, mgr, trace]; trace lists the resolvers it ran, the    *)
(* calls made to measure them marked "procfs_benchmark" and                *)
(* "legacy_benchmark".                                                     *)
(***************************************************************************)
Profiles == {"Fast", "Balanced", "Complete"}

\* measured latencies (milliseconds) a benchmark can record
Durations == {10, 20}

\* AdaptivePortManager::new (adaptive.rs:29-39); available is
\* is_procfs_available() (adaptive.rs:42-45)
AdaptiveNew(profile, available) ==
    [use_procfs |-> available, performance_profile |-> profile,
     last_performance_check |-> None, procfs_performance |-> None,
     legacy_performance |-> None, pid_cache |-> EmptyMap, last_update |-> 0]

Outcome(result, m, trace) == [result |-> result, mgr |-> m, trace |-> trace]

\* legacy_manager.list_processes(protocol)
LegacyListOutcomes(m, protocol, trace) ==
    {Outcome(r, m, Append(trace, "legacy")) : r \in LegacyListResults(protocol)}

\* the Err a call of the kernel-table resolver returns where it can fail
ProcfsError == [kind |-> "IoError", names |-> {"procfs"}, hint |-> FALSE]

\* procfs_manager.list_processes(protocol): the resolver of procfs.rs has
\* no error path; the Err the Selector matches on (adaptive.rs:117, 134)
\* is returned only where procfs_faulty says the resolver can fail
ProcfsListOutcomes(m, protocol, t, trace) ==
    {Outcome(ProcfsList(m, h, t).result, ProcfsList(m, h, t).mgr, Append(trace, "procfs")) :
        h \in HostStates(protocol)}
      \cup (IF procfs_faulty
            THEN {Outcome(Err(ProcfsError), m, Append(trace, "procfs"))} ELSE {})

\* the kernel-table resolver's answer returned as it is
ProcfsListNoFallback(m, protocol, t, trace) == ProcfsListOutcomes(m, protocol, t, trace)

\* match procfs_manager.list_processes(protocol).await { Ok(result) =>
\* Ok(result), Err(_) => legacy_manager.list_processes(protocol).await }
\* (adaptive.rs:115-118, 128-137)
ProcfsListOrFallback(m, protocol, t, trace) ==
    UNION {IF o.result.ok THEN {o} ELSE LegacyListOutcomes(o.mgr, protocol, o.trace) :
            o \in ProcfsListOutcomes(m, protocol, t, trace)}

\* benchmark_performance (adaptive.rs:145-161): the managers it can leave
AfterProcfsBenchmark(m, protocol, t) ==
    IF m.use_procfs
    THEN {Outcome(None, [o.mgr EXCEPT !.procfs_performance = Some(d)],
                  <<"procfs_benchmark">>) :
            o \in ProcfsListOutcomes(m, protocol, t, <<>>), d \in Durations}
    ELSE {Outcome(None, m, <<>>)}

benchmark_performance(m, protocol, t) ==
    {Outcome(None, [a.mgr EXCEPT !.legacy_performance = Some(d)],
             Append(a.trace, "legacy_benchmark")) :
        a \in AfterProcfsBenchmark([m EXCEPT !.last_performance_check = Some(t)], protocol, t),
        d \in Durations}

\* ratio > 0.8 && ratio < 1.2 (adaptive.rs:98-99)
NoClearWinner(procfs, legacy) == 10 * procfs > 8 * legacy /\ 10 * procfs < 12 * legacy

\* a benchmark that is due at every call
should_benchmark_always(m, t) == TRUE

\* adaptive.rs:86-90
should_benchmark(m, t) ==
    m.last_performance_check = None
        \/ t - Unwrap(m.last_performance_check) > BenchmarkInterval

\* adaptive.rs:92-100: the conditions under which the benchmark runs
WillBenchmark(m, t) ==
    /\ should_benchmark(m, t)
    /\ \/ m.procfs_performance = None
       \/ m.legacy_performance = None
       \/ NoClearWinner(Unwrap(m.procfs_performance), Unwrap(m.legacy_performance))

\* adaptive.rs:92-106: the managers the benchmark decision can leave
BenchmarkDecision(m, protocol, t) ==
    IF WillBenchmark(m, t) THEN benchmark_performance(m, protocol, t)
    ELSE IF should_benchmark(m, t)
         THEN {Outcome(None, [m EXCEPT !.last_performance_check = Some(t)], <<>>)}
    ELSE {Outcome(None, m, <<>>)}

\* the choice with "<=" in place of "<"
ProcfsIsNotSlower(m) ==
    /\ m.procfs_performance # None
    /\ m.legacy_performance # None
    /\ Unwrap(m.procfs_performance) <= Unwrap(m.legacy_performance)

\* adaptive.rs:109-112
ProcfsIsFaster(m) ==
    /\ m.procfs_performance # None
    /\ m.legacy_performance # None
    /\ Unwrap(m.procfs_performance) < Unwrap(m.legacy_performance)

\* list_processes_balanced (adaptive.rs:84-122)
list_processes_balanced(m, protocol, t) ==
    UNION {IF ProcfsIsFaster(b.mgr) /\ b.mgr.use_procfs
           THEN ProcfsListOrFallback(b.mgr, protocol, t, b.trace)
           ELSE LegacyListOutcomes(b.mgr, protocol, b.trace) :
           b \in BenchmarkDecision(m, protocol, t)}

\* list_processes_complete (adaptive.rs:125-142)
list_processes_complete(m, protocol, t) ==
    IF m.use_procfs THEN ProcfsListOrFallback(m, protocol, t, <<>>)
    ELSE LegacyListOutcomes(m, protocol, <<>>)

\* list_processes that takes the Complete route under every profile
AdaptiveListIgnoringProfile(m, protocol, t) == list_processes_complete(m, protocol, t)

\* AdaptivePortManager::list_processes (adaptive.rs:48-57)
AdaptiveListProcesses(m, protocol, t) ==
    CASE m.performance_profile = "Fast" -> LegacyListOutcomes(m, protocol, <<>>)
      [] m.performance_profile = "Balanced" -> list_processes_balanced(m, protocol, t)
      [] m.performance_profile = "Complete" -> list_processes_complete(m, protocol, t)

\* legacy_manager.check_port(port, protocol)
LegacyCheckOutcomes(m, port, protocol, trace) ==
    {Outcome(r, m, Append(trace, "legacy")) : r \in LegacyCheckResults(port, protocol)}

\* procfs_manager.check_port(port, protocol); Err as in ProcfsListOutcomes
ProcfsCheckOutcomes(m, port, protocol, t) ==
    {Outcome(ProcfsCheck(m, h, port, t).result, ProcfsCheck(m, h, port, t).mgr,
             <<"procfs">>) : h \in HostStates(protocol)}
      \cup (IF procfs_faulty THEN {Outcome(Err(ProcfsError), m, <<"procfs">>)} ELSE {})

\* AdaptivePortManager::check_port (adaptive.rs:60-81): Fast returns the
\* kernel-table resolver's result as it is (lines 62-68); Balanced and
\* Complete fall back to the tool chain on its Err (lines 69-79)
AdaptiveCheckPort(m, port, protocol, t) ==
    IF ~m.use_procfs THEN LegacyCheckOutcomes(m, port, protocol, <<>>)
    ELSE IF m.performance_profile = "Fast" THEN ProcfsCheckOutcomes(m, port, protocol, t)
    ELSE UNION {IF o.result.ok THEN {o}
                ELSE LegacyCheckOutcomes(o.mgr, port, protocol, o.trace) :
                o \in ProcfsCheckOutcomes(m, port, protocol, t)}

\* the manager states a list_processes call dropped at one of its awaits can
\* leave: none, some or all of its field updates made
AdaptiveListDropped(m, protocol, t) ==
    {m} \cup {o.mgr : o \in AdaptiveListProcesses(m, protocol, t)}
        \cup (IF m.performance_profile = "Balanced"
              THEN {b.mgr : b \in BenchmarkDecision(m, protocol, t)}
              ELSE {})
        \cup (IF m.performance_profile = "Balanced" /\ WillBenchmark(m, t)
              THEN {[m EXCEPT !.last_performance_check = Some(t)]}
                    \cup {a.mgr : a \in AfterProcfsBenchmark(
                                [m EXCEPT !.last_performance_check = Some(t)], protocol, t)}
              ELSE {})

\* AdaptivePortManager::clear_cache (adaptive.rs:216-219)
\* a clear_cache that also forgets the benchmark
clear_cache_and_benchmark(m, t) ==
    [ProcfsClearCache(m, t) EXCEPT !.last_performance_check = None,
                                   !.procfs_performance = None,
                                   !.legacy_performance = None]

\* AdaptivePortManager::clear_cache (adaptive.rs:213-216)
clear_cache(m, t) == ProcfsClearCache(m, t)

\* AdaptivePortManager::get_performance_stats (adaptive.rs:203-210)
get_performance_stats(m) ==
    [procfs_available |-> m.use_procfs, procfs_performance |-> m.procfs_performance,
     legacy_performance |-> m.legacy_performance,
     current_profile |-> m.performance_profile]

\* AdaptivePortManager::set_performance_profile (adaptive.rs:192-198)
AfterSetProfile(m, profile) ==
    IF profile = "Balanced"
    THEN [m EXCEPT !.performance_profile = profile, !.last_performance_check = None]
    ELSE [m EXCEPT !.performance_profile = profile]

\* set_procfs_enabled that trusts the caller
AfterSetProcfsEnabledBlindly(m, enabled, available) == [m EXCEPT !.use_procfs = enabled]

\* AdaptivePortManager::set_procfs_enabled (adaptive.rs:222-224):
\* enabled && Self::is_procfs_available()
AfterSetProcfsEnabled(m, enabled, available) ==
    [m EXCEPT !.use_procfs = enabled /\ available]

(***************************************************************************)
(* PortCache operations (incremental.rs:170-257, 316-333)                  *)
(***************************************************************************)
Protocols == {"tcp", "udp"}

Ports == {80}

PortsOf(procs) == {procs[i].port : i \in DOMAIN procs}

\* for process in &new_processes { process_map.insert(process.port, ...) }
InsertAll(pm, procs) ==
    [port \in DOMAIN pm \cup PortsOf(procs) |->
        IF port \in PortsOf(procs) THEN PortMap(procs)[port] ELSE pm[port]]

\* background_update (incremental.rs:241-246): inserts only
IndexAfterBackground(pm, old, new) == InsertAll(pm, new)

\* update_processes (incremental.rs:189-199): inserts, then removes the
\* ports of the old snapshot that the new one lacks
IndexAfterUpdate(pm, old, new) ==
    MapRemove(InsertAll(pm, new), PortsOf(old) \ PortsOf(new))

\* if change_log.len() > 1000 { change_log.drain(0..500); }
\* (incremental.rs:205-207, 252-254)
TrimLog(log) ==
    IF Len(log) > ChangeLogCap THEN SubSeq(log, ChangeLogDrain + 1, Len(log)) ELSE log

\* cached_time.elapsed() < update_interval, the negation of should_update
\* (incremental.rs:66-67, 161-168)
should_update_always(protocol) == TRUE

should_update(protocol) ==
    IF protocol \in DOMAIN last_updated
    THEN now - last_updated[protocol] >= DefaultUpdateInterval
    ELSE TRUE

\* tokio RwLock: a reader or a writer gets the cache lock when no writer holds it
CacheLockIgnored(who) == TRUE

CacheLockAvailable(who) == cache_lock = "free"

ManagerLockAvailable(who) == manager_lock = "free"

\* Observation of the caller's operation in progress (or the last one) and
\* of the monitoring task after abort():
\*   ops             operations the caller has started
\*   op_age          how old the protocol's timestamp was when the operation
\*                   looked (None: no timestamp)
\*   op_calls        Selector calls the operation has made
\*   op_stored       the list its refresh stored
\*   op_overwritten  the list the monitoring task stored for the same
\*                   protocol after that and before the operation returned
\*   since_clear     protocols whose timestamp was written since the last
\*                   force_refresh
\*   held            the refreshes ("sync", "bg") in the order in which the
\*                   Selector resolved the lists they hold
\*   outdated        the refreshes whose list, not yet stored, is older than
\*                   the one in the cache for the same protocol
\*   bg_stores_after_abort, bg_calls_after_abort
\*                   cache stores made and Selector calls completed by the
\*                   monitoring task after abort() was called
ObsInit ==
    [ops |-> 0, op_age |-> None, op_calls |-> 0, op_stored |-> None,
     op_overwritten |-> None, since_clear |-> {},
     held |-> <<>>, outdated |-> {},
     bg_stores_after_abort |-> 0, bg_calls_after_abort |-> 0]

\* the refresh "who" has resolved a list
HeldAfterList(who) ==
    [obs EXCEPT !.held = SelectSeq(@, LAMBDA h : h # who) \o <<who>>,
                !.outdated = @ \ {who}]

\* the refresh "who" has stored its list for "protocol": a list that the
\* other refresh resolved before that and still holds for the same
\* protocol ("other_holds") is now older than the cached one
HeldAfterStore(who, other, other_holds) ==
    [obs EXCEPT !.held = SelectSeq(@, LAMBDA h : h # who),
                !.outdated = (@ \ {who}) \cup
                    IF /\ other_holds
                       /\ \E i, j \in DOMAIN obs.held :
                            i < j /\ obs.held[i] = other /\ obs.held[j] = who
                    THEN {other} ELSE {}]

\* the calls one run makes: MaxOps by a caller alone, MaxWatchOps once the
\* monitoring task exists
OpsLimit == IF bg_pc = "none" THEN MaxOps ELSE MaxWatchOps

EntryAge(protocol) ==
    IF protocol \in DOMAIN last_updated THEN Some(now - last_updated[protocol]) ELSE None

ObsBegin(protocol) ==
    [obs EXCEPT !.ops = @ + 1, !.op_age = EntryAge(protocol), !.op_calls = 0,
                !.op_stored = None, !.op_overwritten = None]

Return(op, result) == [op |-> op, result |-> result]

(***************************************************************************)
(* Spec: the synchronous caller (incremental.rs:50-92, 141-153, 170-212)   *)
(***************************************************************************)
\* get_processes, lines 50-55: should_update under the read lock
get_processes(protocol) ==
    /\ sync_pc = "idle"
    /\ obs.ops < OpsLimit
    /\ CacheLockAvailable("sync")
    /\ sync_protocol' = protocol
    /\ sync_pc' = IF should_update(protocol) THEN "update_processes" ELSE "read"
    /\ sync_local' = None
    /\ sync_ret' = None
    /\ obs' = ObsBegin(protocol)
    /\ UNCHANGED <<cacheVars, mgr, now, sync_port, bgVars, lockVars>>

\* update_processes with the protocol's entry dropped when the Selector fails
update_processes_list_invalidating ==
    /\ sync_pc = "update_processes"
    /\ ManagerLockAvailable("sync")
    /\ \E o \in AdaptiveListProcesses(mgr, sync_protocol, now) :
         /\ mgr' = o.mgr
         /\ IF o.result.ok
            THEN /\ sync_pc' = "update_cache"
                 /\ sync_local' = [new |-> o.result.value, old |-> <<>>]
                 /\ sync_ret' = sync_ret
                 /\ obs' = [HeldAfterList("sync") EXCEPT !.op_calls = @ + 1]
                 /\ UNCHANGED cacheVars
            ELSE /\ sync_pc' = "idle"
                 /\ sync_local' = None
                 /\ sync_ret' = Some(Return("get_processes", o.result))
                 /\ obs' = [obs EXCEPT !.op_calls = @ + 1]
                 /\ last_updated' = MapRemove(last_updated, {sync_protocol})
                 /\ UNCHANGED <<processes, process_map, change_log>>
    /\ UNCHANGED <<now, sync_protocol, sync_port, bgVars, lockVars>>

\* update_processes, lines 171-174: the Selector call under the manager lock;
\* an error returns from get_processes through the two "?"
update_processes_list ==
    /\ sync_pc = "update_processes"
    /\ ManagerLockAvailable("sync")
    /\ \E o \in AdaptiveListProcesses(mgr, sync_protocol, now) :
         /\ mgr' = o.mgr
         /\ IF o.result.ok
            THEN /\ sync_pc' = "update_cache"
                 /\ sync_local' = [new |-> o.result.value, old |-> <<>>]
                 /\ sync_ret' = sync_ret
                 /\ obs' = [HeldAfterList("sync") EXCEPT !.op_calls = @ + 1]
            ELSE /\ sync_pc' = "idle"
                 /\ sync_local' = None
                 /\ sync_ret' = Some(Return("get_processes", o.result))
                 /\ obs' = [obs EXCEPT !.op_calls = @ + 1]
    /\ UNCHANGED <<cacheVars, now, sync_protocol, sync_port, bgVars, lockVars>>

\* update_processes, lines 176-177: the cache write lock and the old snapshot
update_processes_lock ==
    /\ sync_pc = "update_cache"
    /\ CacheLockAvailable("sync")
    /\ cache_lock' = "sync"
    /\ sync_local' = [sync_local EXCEPT !.old = GetOrDefault(processes, sync_protocol)]
    /\ sync_pc' = "store"
    /\ UNCHANGED <<cacheVars, mgr, now, sync_protocol, sync_port, sync_ret, bgVars,
                   manager_lock, obs>>

\* update_processes, lines 179-211: diff, store, index, log, trim, unlock
update_processes_store ==
    /\ sync_pc = "store"
    /\ \E ch \in compute_changes(sync_local.old, sync_local.new, now) :
         change_log' = TrimLog(change_log \o ch)
    /\ processes' = MapPut(processes, sync_protocol, sync_local.new)
    /\ last_updated' = MapPut(last_updated, sync_protocol, now)
    /\ process_map' = IndexAfterUpdate(process_map, sync_local.old, sync_local.new)
    /\ cache_lock' = "free"
    /\ sync_pc' = "read"
    /\ sync_local' = None
    /\ obs' = [HeldAfterStore("sync", "bg",
                    bg_pc \in {"cache", "cache_wait"}
                        /\ bg_protocols[bg_idx] = sync_protocol)
                EXCEPT !.op_stored = Some(sync_local.new),
                       !.since_clear = @ \cup {sync_protocol}]
    /\ UNCHANGED <<mgr, now, sync_protocol, sync_port, sync_ret, bgVars, manager_lock>>

\* get_processes, lines 57-58: the list read back under the read lock
get_processes_read ==
    /\ sync_pc = "read"
    /\ CacheLockAvailable("sync")
    /\ sync_ret' = Some(Return("get_processes", Ok(GetOrDefault(processes, sync_protocol))))
    /\ sync_pc' = "idle"
    /\ UNCHANGED <<cacheVars, mgr, now, sync_protocol, sync_port, sync_local, bgVars,
                   lockVars, obs>>

\* get_port, lines 64-76: a fresh entry answers from the index; otherwise
\* the caller goes on to the manager
get_port(port, protocol) ==
    /\ sync_pc = "idle"
    /\ obs.ops < OpsLimit
    /\ CacheLockAvailable("sync")
    /\ sync_protocol' = protocol
    /\ sync_port' = port
    /\ sync_local' = None
    /\ obs' = ObsBegin(protocol)
    /\ IF ~should_update(protocol)
       THEN /\ sync_pc' = "idle"
            /\ sync_ret' = Some(Return("get_port",
                    Ok(IF port \in DOMAIN process_map /\ process_map[port].protocol = protocol
                       THEN Some(process_map[port]) ELSE None)))
       ELSE /\ sync_pc' = "check_port"
            /\ sync_ret' = None
    /\ UNCHANGED <<cacheVars, mgr, now, bgVars, lockVars>>

\* get_port, lines 79-80 and 91: the manager lock is taken and check_port
\* called; an error or a not-found returns; a record goes on to the cache
\* with the manager lock still held
get_port_check ==
    /\ sync_pc = "check_port"
    /\ ManagerLockAvailable("sync")
    /\ \E o \in AdaptiveCheckPort(mgr, sync_port, sync_protocol, now) :
         /\ mgr' = o.mgr
         /\ IF o.result.ok /\ o.result.value # None
            THEN /\ sync_pc' = "port_store"
                 /\ sync_local' = [result |-> Unwrap(o.result.value)]
                 /\ sync_ret' = sync_ret
                 /\ manager_lock' = "sync"
            ELSE /\ sync_pc' = "idle"
                 /\ sync_local' = None
                 /\ sync_ret' = Some(Return("get_port", o.result))
                 /\ manager_lock' = manager_lock
    /\ obs' = [obs EXCEPT !.op_calls = @ + 1]
    /\ UNCHANGED <<cacheVars, now, sync_protocol, sync_port, bgVars, cache_lock>>

\* get_port's store without line 86: the record is returned, not indexed
get_port_store_unindexed ==
    /\ sync_pc = "port_store"
    /\ CacheLockAvailable("sync")
    /\ last_updated' = MapPut(last_updated, sync_protocol, now)
    /\ manager_lock' = "free"
    /\ sync_ret' = Some(Return("get_port", Ok(Some(sync_local.result))))
    /\ sync_pc' = "idle"
    /\ sync_local' = None
    /\ UNCHANGED <<processes, process_map, change_log, mgr, now, sync_protocol, sync_port,
                   obs, bgVars, cache_lock>>

\* get_port, lines 83-91: the record and the protocol's timestamp are stored
get_port_store ==
    /\ sync_pc = "port_store"
    /\ CacheLockAvailable("sync")
    /\ process_map' = MapPut(process_map, sync_port, sync_local.result)
    /\ last_updated' = MapPut(last_updated, sync_protocol, now)
    /\ manager_lock' = "free"
    /\ sync_ret' = Some(Return("get_port", Ok(Some(sync_local.result))))
    /\ sync_pc' = "idle"
    /\ sync_local' = None
    /\ obs' = [obs EXCEPT !.since_clear = @ \cup {sync_protocol}]
    /\ UNCHANGED <<processes, change_log, mgr, now, sync_protocol, sync_port, bgVars,
                   cache_lock>>

\* force_refresh, lines 142-145, and PortCache::clear (lines 327-332)
force_refresh ==
    /\ sync_pc = "idle"
    /\ obs.ops < OpsLimit
    /\ CacheLockAvailable("sync")
    /\ processes' = EmptyMap
    /\ process_map' = EmptyMap
    /\ last_updated' = EmptyMap
    /\ sync_pc' = "clear_cache"
    /\ sync_local' = None
    /\ sync_ret' = None
    /\ obs' = [ObsBegin("") EXCEPT !.since_clear = {}]
    /\ UNCHANGED <<change_log, mgr, now, sync_protocol, sync_port, bgVars, lockVars>>

\* force_refresh, lines 147-152: manager.clear_cache() under the manager lock
force_refresh_clear_cache ==
    /\ sync_pc = "clear_cache"
    /\ ManagerLockAvailable("sync")
    /\ mgr' = clear_cache(mgr, now)
    /\ sync_ret' = Some(Return("force_refresh", Ok(None)))
    /\ sync_pc' = "idle"
    /\ UNCHANGED <<cacheVars, now, sync_protocol, sync_port, sync_local, bgVars, lockVars,
                   obs>>

\* start_monitoring (lines 112-128): the task is spawned; the first tick of
\* tokio::time::interval is due at once
start_monitoring(protocols) ==
    /\ sync_pc = "idle"
    /\ bg_pc = "none"
    /\ bg_pc' = "tick"
    /\ bg_protocols' = protocols
    /\ bg_next_tick' = now
    /\ UNCHANGED <<cacheVars, mgr, now, syncVars, bg_idx, bg_local, aborted, lockVars, obs>>

\* the instants at which the clock is looked at: the start, one second
\* before the update interval has elapsed, and every second from then on
Instants == {0, DefaultUpdateInterval - 1} \cup DefaultUpdateInterval..MaxTime

\* the clock advances to a later instant
Tick ==
    /\ \E t \in Instants : t > now /\ now' = t
    /\ UNCHANGED <<cacheVars, mgr, syncVars, bgVars, lockVars, obs>>

(***************************************************************************)
(* Spec: the monitoring task (incremental.rs:117-127, 214-257).            *)
(* Its positions: "tick" (suspended in interval.tick()), "manager" (about  *)
(* to take the manager lock), "manager_wait" (suspended on it), "listing"  *)
(* (suspended in the Selector call, lock held), "cache" (about to take the *)
(* cache lock), "cache_wait" (suspended on it), "store" (lock held).       *)
(* JoinHandle::abort() drops a suspended task at once; a task that is      *)
(* being polled runs on to its next suspension and is dropped there.       *)
(***************************************************************************)
AbortCancelsNothing(pc) == FALSE

AbortCancels(pc) == pc \in {"tick", "manager_wait", "listing", "cache_wait"}

\* the manager a list_processes call leaves when dropped at its first await
\* (adaptive.rs:103, 146 run before it)
ListFirstAwait(m, t) ==
    IF m.performance_profile = "Balanced" /\ should_benchmark(m, t)
    THEN [m EXCEPT !.last_performance_check = Some(t)]
    ELSE m

\* where the task goes after the update of protocol bg_idx: the next
\* protocol of this tick, or interval.tick() again, which returns at once
\* when its deadline has passed (MissedTickBehavior::Burst) and suspends
\* the task otherwise
AfterBackgroundUpdate ==
    IF bg_idx < Len(bg_protocols)
    THEN [pc |-> "manager", idx |-> bg_idx + 1, next_tick |-> bg_next_tick]
    ELSE IF now >= bg_next_tick
    THEN [pc |-> "manager", idx |-> 1, next_tick |-> bg_next_tick + DefaultUpdateInterval]
    ELSE [pc |-> IF aborted THEN "cancelled" ELSE "tick", idx |-> bg_idx,
          next_tick |-> bg_next_tick]

\* a failed update that ends the task, as "?" in the loop body would
AfterFailedUpdateTaskEnds ==
    [pc |-> "finished", idx |-> bg_idx, next_tick |-> bg_next_tick]

\* "let _ = Self::background_update(..).await;" (line 124): the error of a
\* failed update is discarded and the loop goes on as after a stored one
AfterFailedUpdate == AfterBackgroundUpdate

\* interval.tick().await completes (line 121) and the loop body starts
interval_tick ==
    /\ bg_pc = "tick"
    /\ now >= bg_next_tick
    /\ bg_next_tick' = bg_next_tick + DefaultUpdateInterval
    /\ bg_idx' = 1
    /\ bg_pc' = "manager"
    /\ UNCHANGED <<cacheVars, mgr, now, syncVars, bg_protocols, bg_local, aborted,
                   lockVars, obs>>

\* background_update, lines 219-221: the manager lock is granted and the
\* Selector call begins
background_update_acquire ==
    /\ bg_pc \in {"manager", "manager_wait"}
    /\ ~aborted
    /\ ManagerLockAvailable("bg")
    /\ manager_lock' = "bg"
    /\ bg_pc' = "listing"
    /\ UNCHANGED <<cacheVars, mgr, now, syncVars, bg_protocols, bg_idx, bg_local,
                   bg_next_tick, aborted, cache_lock, obs>>

\* the manager lock is held by the caller: the task suspends
background_update_manager_wait ==
    /\ bg_pc = "manager"
    /\ ~aborted
    /\ ~ManagerLockAvailable("bg")
    /\ bg_pc' = "manager_wait"
    /\ UNCHANGED <<cacheVars, mgr, now, syncVars, bg_protocols, bg_idx, bg_local,
                   bg_next_tick, aborted, lockVars, obs>>

\* background_update, lines 221-222 and line 124: the Selector call returns
\* and the manager lock is released; an error is discarded ("let _ =")
background_update_listed ==
    /\ bg_pc = "listing"
    /\ \E o \in AdaptiveListProcesses(mgr, bg_protocols[bg_idx], now) :
         /\ mgr' = o.mgr
         /\ IF o.result.ok
            THEN /\ bg_pc' = "cache"
                 /\ bg_local' = Some([new |-> o.result.value, old |-> <<>>])
                 /\ UNCHANGED <<bg_idx, bg_next_tick>>
            ELSE /\ bg_pc' = AfterFailedUpdate.pc
                 /\ bg_idx' = AfterFailedUpdate.idx
                 /\ bg_next_tick' = AfterFailedUpdate.next_tick
                 /\ bg_local' = None
    /\ manager_lock' = "free"
    /\ obs' = [(IF bg_pc' = "cache" THEN HeldAfterList("bg") ELSE obs)
                EXCEPT !.bg_calls_after_abort = IF aborted THEN @ + 1 ELSE @]
    /\ UNCHANGED <<cacheVars, now, syncVars, bg_protocols, aborted, cache_lock>>

\* background_update, lines 224-229: the cache write lock and the old snapshot
background_update_lock ==
    /\ bg_pc \in {"cache", "cache_wait"}
    /\ CacheLockAvailable("bg")
    /\ cache_lock' = "bg"
    /\ bg_local' = Some([Unwrap(bg_local) EXCEPT
                        !.old = GetOrDefault(processes, bg_protocols[bg_idx])])
    /\ bg_pc' = "store"
    /\ UNCHANGED <<cacheVars, mgr, now, syncVars, bg_protocols, bg_idx, bg_next_tick,
                   aborted, manager_lock, obs>>

\* the cache lock is held by the caller: the task suspends
background_update_cache_wait ==
    /\ bg_pc = "cache"
    /\ ~aborted
    /\ ~CacheLockAvailable("bg")
    /\ bg_pc' = "cache_wait"
    /\ UNCHANGED <<cacheVars, mgr, now, syncVars, bg_protocols, bg_idx, bg_local,
                   bg_next_tick, aborted, lockVars, obs>>

\* background_update, lines 231-256: diff, store, index (inserts only), log,
\* trim, unlock; then the next protocol or the next tick
background_update_store ==
    /\ bg_pc = "store"
    /\ \E ch \in compute_changes(Unwrap(bg_local).old, Unwrap(bg_local).new, now) :
         change_log' = TrimLog(change_log \o ch)
    /\ processes' = MapPut(processes, bg_protocols[bg_idx], Unwrap(bg_local).new)
    /\ last_updated' = MapPut(last_updated, bg_protocols[bg_idx], now)
    /\ process_map' = IndexAfterBackground(process_map, Unwrap(bg_local).old,
                                         Unwrap(bg_local).new)
    /\ cache_lock' = "free"
    /\ bg_pc' = AfterBackgroundUpdate.pc
    /\ bg_idx' = AfterBackgroundUpdate.idx
    /\ bg_next_tick' = AfterBackgroundUpdate.next_tick
    /\ obs' = [HeldAfterStore("bg", "sync",
                    sync_pc = "update_cache" /\ sync_protocol = bg_protocols[bg_idx])
                EXCEPT
                !.bg_stores_after_abort = IF aborted THEN @ + 1 ELSE @,
                !.since_clear = @ \cup {bg_protocols[bg_idx]},
                !.op_overwritten =
                    IF sync_pc = "read" /\ bg_protocols[bg_idx] = sync_protocol
                    THEN Some(Unwrap(bg_local).new) ELSE @]
    /\ bg_local' = None
    /\ UNCHANGED <<mgr, now, syncVars, bg_protocols, aborted, manager_lock>>

\* the task, aborted while it was being polled, reaches an await that
\* suspends it (the manager lock or the Selector's first I/O, the cache
\* lock when it is held) and is dropped there
background_update_dropped ==
    /\ aborted
    /\ \/ bg_pc = "manager"
       \/ bg_pc = "cache" /\ ~CacheLockAvailable("bg")
    /\ mgr' = IF bg_pc = "manager" /\ ManagerLockAvailable("bg")
              THEN ListFirstAwait(mgr, now) ELSE mgr
    /\ bg_pc' = "cancelled"
    /\ bg_local' = None
    /\ UNCHANGED <<cacheVars, now, syncVars, bg_protocols, bg_idx, bg_next_tick, aborted,
                   lockVars, obs>>

\* stop_monitoring (lines 131-133) / monitor_handle.abort()
\* (list_watch.rs:79): a suspended task is dropped where it is, with the
\* manager lock it holds released and the Selector call it was in cut short
stop_monitoring ==
    /\ sync_pc = "idle"
    /\ bg_pc \notin {"none", "cancelled"}
    /\ ~aborted
    /\ aborted' = TRUE
    /\ IF AbortCancels(bg_pc)
       THEN /\ bg_pc' = "cancelled"
            /\ bg_local' = None
            /\ IF bg_pc = "listing"
               THEN /\ manager_lock' = "free"
                    /\ mgr' \in AdaptiveListDropped(mgr, bg_protocols[bg_idx], now)
               ELSE UNCHANGED <<manager_lock, mgr>>
       ELSE UNCHANGED <<bg_pc, bg_local, manager_lock, mgr>>
    /\ UNCHANGED <<cacheVars, now, syncVars, bg_protocols, bg_idx, bg_next_tick,
                   cache_lock, obs>>

(***************************************************************************)
(* Initial states and specifications                                       *)
(***************************************************************************)
\* the list of protocols start_monitoring is given: the protocol of the
\* watch (list_watch.rs:23)
MonitoredProtocols == {<<"tcp">>}

\* IncrementalPortManager::new (incremental.rs:40-47), PortCache::new
\* (incremental.rs:318-325), no monitoring task
EngineNew(m, log) ==
    /\ processes = EmptyMap
    /\ process_map = EmptyMap
    /\ last_updated = EmptyMap
    /\ change_log = log
    /\ mgr = m
    /\ now = 0
    /\ sync_pc = "idle"
    /\ sync_protocol = ""
    /\ sync_port = 0
    /\ sync_local = None
    /\ sync_ret = None
    /\ bg_pc = "none"
    /\ bg_protocols = <<>>
    /\ bg_idx = 1
    /\ bg_local = None
    /\ bg_next_tick = 0
    /\ aborted = FALSE
    /\ manager_lock = "free"
    /\ cache_lock = "free"
    /\ obs = ObsInit

EngineIdle == EngineNew(AdaptiveNew("Fast", FALSE), <<>>)

\* the Selector is used through the engine only: the kernel tables are
\* there or not as the manager found them, and they can be read
SelIdle ==
    /\ procfs_available = mgr.use_procfs
    /\ procfs_faulty = FALSE
    /\ sel_last = None
    /\ sel_ops = 0

\* no kernel table is parsed
TableIdle ==
    /\ table_protocol = "tcp"
    /\ table_lines = <<>>
    /\ fd_links = <<>>
    /\ table_records = None
    /\ table_pc = "unused"
    /\ unreadable = {}
    /\ table_result = None
    /\ table_answer = None

\* get_display_path is not called
DisplayIdle ==
    /\ display_info = None
    /\ display_path = <<>>

\* the pid cache is not observed
PidIdle == pid_read_at = EmptyMap /\ pid_last = None

\* parse_lsof_output is not called
ParseIdle ==
    /\ parse_lines = <<>>
    /\ batch_outcome = [status |-> "spawn_error", described |-> {}]
    /\ parse_pc = "unused"
    /\ basic_process_info = <<>>
    /\ process_details = None
    /\ spawned = <<>>
    /\ parse_result = None

\* KillCommand is not run
KillIdle ==
    /\ kill_args = [port |-> 0, protocol |-> "tcp", force |-> FALSE, json |-> FALSE]
    /\ kill_host = None
    /\ kill_pc = "unused"
    /\ kill_trace = <<>>
    /\ kill_confirmed = None
    /\ kill_alive = FALSE
    /\ kill_process_ret = None
    /\ kill_ret = None

ToolIdle == ParseIdle /\ KillIdle

OtherIdle == TableIdle /\ DisplayIdle /\ PidIdle /\ ToolIdle

\* ---- Spec: the caller alone, every profile, both protocols
Init ==
    /\ DiffIdle
    /\ ChainIdle
    /\ \E profile \in Profiles, available \in BOOLEAN :
         EngineNew(AdaptiveNew(profile, available), <<>>)
    /\ SelIdle
    /\ OtherIdle

Next ==
    \/ (\E protocol \in Protocols : get_processes(protocol))
            /\ UNCHANGED <<diffVars, chainVars, selVars, otherVars>>
    \/ update_processes_list /\ UNCHANGED <<diffVars, chainVars, selVars, otherVars>>
    \/ update_processes_lock /\ UNCHANGED <<diffVars, chainVars, selVars, otherVars>>
    \/ update_processes_store /\ UNCHANGED <<diffVars, chainVars, selVars, otherVars>>
    \/ get_processes_read /\ UNCHANGED <<diffVars, chainVars, selVars, otherVars>>
    \/ (\E port \in Ports, protocol \in Protocols : get_port(port, protocol))
            /\ UNCHANGED <<diffVars, chainVars, selVars, otherVars>>
    \/ get_port_check /\ UNCHANGED <<diffVars, chainVars, selVars, otherVars>>
    \/ get_port_store /\ UNCHANGED <<diffVars, chainVars, selVars, otherVars>>
    \/ force_refresh /\ UNCHANGED <<diffVars, chainVars, selVars, otherVars>>
    \/ force_refresh_clear_cache /\ UNCHANGED <<diffVars, chainVars, selVars, otherVars>>
    \/ Tick /\ UNCHANGED <<diffVars, chainVars, selVars, otherVars>>

Spec == Init /\ [][Next]_vars

\* ---- SpecWatch: the caller beside the monitoring task, as the watch
\* ---- mode runs them (list_watch.rs:22-79): start_monitoring on the
\* ---- watched protocol, get_processes of that protocol, abort; and
\* ---- force_refresh, which the manager also offers meanwhile
\* ---- with the tool chain alone (Fast) or the kernel tables (Complete)
WatchManagers == {AdaptiveNew("Fast", FALSE), AdaptiveNew("Complete", TRUE)}

InitWatch ==
    /\ DiffIdle
    /\ ChainIdle
    /\ \E m \in WatchManagers : EngineNew(m, <<>>)
    /\ SelIdle
    /\ OtherIdle

NextWatch ==
    \/ (\E protocols \in MonitoredProtocols : start_monitoring(protocols))
            /\ UNCHANGED <<diffVars, chainVars, selVars, otherVars>>
    \/ (\E protocol \in Range(bg_protocols) : get_processes(protocol))
            /\ UNCHANGED <<diffVars, chainVars, selVars, otherVars>>
    \/ update_processes_list /\ UNCHANGED <<diffVars, chainVars, selVars, otherVars>>
    \/ update_processes_lock /\ UNCHANGED <<diffVars, chainVars, selVars, otherVars>>
    \/ update_processes_store /\ UNCHANGED <<diffVars, chainVars, selVars, otherVars>>
    \/ get_processes_read /\ UNCHANGED <<diffVars, chainVars, selVars, otherVars>>
    \/ (bg_pc # "none" /\ force_refresh) /\ UNCHANGED <<diffVars, chainVars, selVars, otherVars>>
    \/ force_refresh_clear_cache /\ UNCHANGED <<diffVars, chainVars, selVars, otherVars>>
    \/ stop_monitoring /\ UNCHANGED <<diffVars, chainVars, selVars, otherVars>>
    \/ interval_tick /\ UNCHANGED <<diffVars, chainVars, selVars, otherVars>>
    \/ background_update_acquire /\ UNCHANGED <<diffVars, chainVars, selVars, otherVars>>
    \/ background_update_listed /\ UNCHANGED <<diffVars, chainVars, selVars, otherVars>>
    \/ background_update_lock /\ UNCHANGED <<diffVars, chainVars, selVars, otherVars>>
    \/ background_update_cache_wait /\ UNCHANGED <<diffVars, chainVars, selVars, otherVars>>
    \/ background_update_store /\ UNCHANGED <<diffVars, chainVars, selVars, otherVars>>
    \/ background_update_dropped /\ UNCHANGED <<diffVars, chainVars, selVars, otherVars>>
    \/ Tick /\ UNCHANGED <<diffVars, chainVars, selVars, otherVars>>

SpecWatch == InitWatch /\ [][NextWatch]_vars

\* ---- SpecWatchUdp: the watch mode on "udp", whose host states have two
\* ---- sockets, so that one refresh appends several events to the log
InitWatchUdp ==
    /\ DiffIdle
    /\ ChainIdle
    /\ EngineNew(AdaptiveNew("Complete", TRUE), <<>>)
    /\ SelIdle
    /\ OtherIdle

NextWatchUdp ==
    \/ start_monitoring(<<"udp">>) /\ UNCHANGED <<diffVars, chainVars, selVars, otherVars>>
    \/ (\E protocol \in Range(bg_protocols) : get_processes(protocol))
            /\ UNCHANGED <<diffVars, chainVars, selVars, otherVars>>
    \/ update_processes_list /\ UNCHANGED <<diffVars, chainVars, selVars, otherVars>>
    \/ update_processes_lock /\ UNCHANGED <<diffVars, chainVars, selVars, otherVars>>
    \/ update_processes_store /\ UNCHANGED <<diffVars, chainVars, selVars, otherVars>>
    \/ get_processes_read /\ UNCHANGED <<diffVars, chainVars, selVars, otherVars>>
    \/ stop_monitoring /\ UNCHANGED <<diffVars, chainVars, selVars, otherVars>>
    \/ interval_tick /\ UNCHANGED <<diffVars, chainVars, selVars, otherVars>>
    \/ background_update_acquire /\ UNCHANGED <<diffVars, chainVars, selVars, otherVars>>
    \/ background_update_listed /\ UNCHANGED <<diffVars, chainVars, selVars, otherVars>>
    \/ background_update_lock /\ UNCHANGED <<diffVars, chainVars, selVars, otherVars>>
    \/ background_update_cache_wait /\ UNCHANGED <<diffVars, chainVars, selVars, otherVars>>
    \/ background_update_store /\ UNCHANGED <<diffVars, chainVars, selVars, otherVars>>
    \/ background_update_dropped /\ UNCHANGED <<diffVars, chainVars, selVars, otherVars>>
    \/ Tick /\ UNCHANGED <<diffVars, chainVars, selVars, otherVars>>

SpecWatchUdp == InitWatchUdp /\ [][NextWatchUdp]_vars

\* ---- SpecMonitor: the monitoring task alone, given two protocols, on
\* ---- the tool chain, whose listing can fail; the runtime polls a task
\* ---- that can run, tokio::time::interval fires when it is due, and the
\* ---- locks, which nobody else takes, are granted
InitMonitor ==
    /\ DiffIdle
    /\ ChainIdle
    /\ EngineNew(AdaptiveNew("Fast", FALSE), <<>>)
    /\ SelIdle
    /\ OtherIdle

NextMonitor ==
    \/ start_monitoring(<<"tcp", "udp">>) /\ UNCHANGED <<diffVars, chainVars, selVars, otherVars>>
    \/ stop_monitoring /\ UNCHANGED <<diffVars, chainVars, selVars, otherVars>>
    \/ interval_tick /\ UNCHANGED <<diffVars, chainVars, selVars, otherVars>>
    \/ background_update_acquire /\ UNCHANGED <<diffVars, chainVars, selVars, otherVars>>
    \/ background_update_listed /\ UNCHANGED <<diffVars, chainVars, selVars, otherVars>>
    \/ background_update_lock /\ UNCHANGED <<diffVars, chainVars, selVars, otherVars>>
    \/ background_update_store /\ UNCHANGED <<diffVars, chainVars, selVars, otherVars>>
    \/ background_update_dropped /\ UNCHANGED <<diffVars, chainVars, selVars, otherVars>>
    \/ Tick /\ UNCHANGED <<diffVars, chainVars, selVars, otherVars>>

\* every step of the task changes its position bg_pc
MonitorFairness ==
    /\ WF_bg_pc(interval_tick /\ UNCHANGED <<diffVars, chainVars, selVars, otherVars>>)
    /\ WF_bg_pc(background_update_acquire /\ UNCHANGED <<diffVars, chainVars, selVars, otherVars>>)
    /\ WF_bg_pc(background_update_listed /\ UNCHANGED <<diffVars, chainVars, selVars, otherVars>>)
    /\ WF_bg_pc(background_update_lock /\ UNCHANGED <<diffVars, chainVars, selVars, otherVars>>)
    /\ WF_bg_pc(background_update_store /\ UNCHANGED <<diffVars, chainVars, selVars, otherVars>>)

SpecMonitor == InitMonitor /\ [][NextMonitor]_vars /\ MonitorFairness

\* compute_changes on every pair of snapshots
InitDiff == DiffInit /\ ChainIdle /\ EngineIdle /\ SelIdle /\ OtherIdle

NextDiff == ComputeChanges /\ UNCHANGED <<chainVars, engineVars, selVars, otherVars>>

SpecDiff == InitDiff /\ [][NextDiff]_vars

NextChain ==
    \/ list_processes_unix /\ UNCHANGED <<diffVars, engineVars, selVars, otherVars>>
    \/ check_port_unix_optimized /\ UNCHANGED <<diffVars, engineVars, selVars, otherVars>>

\* one call of the tool chain for every outcome of the three tools
InitChain == DiffIdle /\ ChainInit /\ EngineIdle /\ SelIdle /\ OtherIdle

SpecChain == InitChain /\ [][NextChain]_vars

\* ---- SpecLog: Spec with a change log already near its cap.  The log
\* ---- keeps growing across force_refresh, which empties everything else:
\* ---- every get_processes that follows a force_refresh appends the "Added"
\* ---- events of what it finds.
LoggedRecord(i) ==
    LegacySnapshot(IF i % 2 = 0 THEN <<HostSocket("tcp", 80, 1, 101)>>
                   ELSE <<HostSocket("tcp", 80, 2, 102)>>)[1]

FilledLog(n) == [i \in 1..n |-> PortChange(0, "Added", LoggedRecord(i))]

InitLog ==
    /\ DiffIdle
    /\ ChainIdle
    /\ \E n \in {ChangeLogCap - 1, ChangeLogCap} :
         EngineNew(clear_cache(AdaptiveNew("Fast", FALSE), 0), FilledLog(n))
    /\ SelIdle
    /\ OtherIdle

SpecLog == InitLog /\ [][Next]_vars

(***************************************************************************)
(* The Selector called directly (adaptive.rs:48-81, 192-224)               *)
(*                                                                         *)
(* SpecSelector: one AdaptivePortManager, its public operations called one *)
(* after another while the clock advances.  sel_last keeps the last        *)
(* operation: its name and argument, the manager and the instant it        *)
(* started from, what it returned, the resolvers it ran, and the operation *)
(* before it.                                                              *)
(***************************************************************************)
\* operations made on the Selector in one run of SpecSelector
MaxSelOps == 3

\* the instants of SpecSelector's clock: a benchmark made at 0 is exactly
\* 30 minutes old at the second and older at the third
SelInstants == {0, BenchmarkInterval, BenchmarkInterval + 1}

SelPrev == IF sel_last = None THEN "none" ELSE Unwrap(sel_last).op

SelRecord(op, arg, result, trace) ==
    Some([op |-> op, arg |-> arg, before |-> mgr, at |-> now,
          result |-> result, trace |-> trace,
          prev |-> SelPrev,
          prev_arg |-> IF sel_last = None THEN "" ELSE Unwrap(sel_last).arg])

SelStep(op, arg, result, m, trace) ==
    /\ sel_ops < MaxSelOps
    /\ mgr' = m
    /\ sel_last' = SelRecord(op, arg, result, trace)
    /\ sel_ops' = sel_ops + 1
    /\ UNCHANGED <<procfs_available, procfs_faulty, now>>

SelFrame ==
    UNCHANGED <<diffVars, chainVars, otherVars, cacheVars, syncVars, bgVars, lockVars, obs>>

list_processes ==
    /\ \E o \in AdaptiveListProcesses(mgr, "tcp", now) :
            SelStep("list_processes", "tcp", Some(o.result), o.mgr, o.trace)
    /\ SelFrame

check_port ==
    /\ \E port \in Ports : \E o \in AdaptiveCheckPort(mgr, port, "tcp", now) :
            SelStep("check_port", "tcp", Some(o.result), o.mgr, o.trace)
    /\ SelFrame

set_performance_profile ==
    /\ \E profile \in Profiles :
            SelStep("set_performance_profile", profile, None,
                    AfterSetProfile(mgr, profile), <<>>)
    /\ SelFrame

set_procfs_enabled ==
    /\ \E enabled \in BOOLEAN :
            SelStep("set_procfs_enabled", IF enabled THEN "true" ELSE "false", None,
                    AfterSetProcfsEnabled(mgr, enabled, procfs_available), <<>>)
    /\ SelFrame

SelClearCache ==
    /\ SelStep("clear_cache", "", None, clear_cache(mgr, now), <<>>)
    /\ SelFrame

SelGetPerformanceStats ==
    /\ SelStep("get_performance_stats", "", Some(Ok(get_performance_stats(mgr))), mgr, <<>>)
    /\ SelFrame

\* time passes between two operations
SelElapse ==
    /\ \E t \in SelInstants : t > now /\ now' = t
    /\ UNCHANGED <<mgr, selVars>>
    /\ SelFrame

InitSelector ==
    /\ DiffIdle
    /\ ChainIdle
    /\ \E profile \in Profiles, available \in BOOLEAN :
            /\ EngineNew(AdaptiveNew(profile, available), <<>>)
            /\ procfs_available = available
    /\ procfs_faulty \in BOOLEAN
    /\ sel_last = None
    /\ sel_ops = 0
    /\ OtherIdle

NextSelector ==
    \/ list_processes
    \/ check_port
    \/ set_performance_profile
    \/ set_procfs_enabled
    \/ SelClearCache
    \/ SelGetPerformanceStats
    \/ SelElapse

SpecSelector == InitSelector /\ [][NextSelector]_vars

(***************************************************************************)
(* The kernel-table resolver on one table (procfs.rs:33-56, 65-99)         *)
(*                                                                         *)
(* SpecTable: list_processes(table_protocol) of a new ProcfsPortManager on *)
(* a host whose IPv4 table holds table_lines and whose processes hold the  *)
(* socket links fd_links: the table is read and parsed, then the records   *)
(* are enriched.                                                           *)
(***************************************************************************)
\* data lines of a table
MaxTableLines == 2
\* socket links found in the /proc/<pid>/fd directories
MaxFdLinks == 2

\* local_address fields: 00000000:1F90, 0100007F:0050, one without colon,
\* one whose port is no hexadecimal number, one with a two-character address
Wild8080 == [colon |-> TRUE, addr |-> <<0, 0, 0, 0, 0, 0, 0, 0>>, port |-> <<1, 15, 9, 0>>]
Loop80 == [colon |-> TRUE, addr |-> <<0, 1, 0, 0, 0, 0, 7, 15>>, port |-> <<0, 0, 5, 0>>]
NoColon == [colon |-> FALSE, addr |-> <<>>, port |-> <<>>]
BadPort == [colon |-> TRUE, addr |-> <<0, 0, 0, 0, 0, 0, 0, 0>>, port |-> <<1, NotADigit>>]
ShortAddr == [colon |-> TRUE, addr |-> <<0, 0>>, port |-> <<1, 15, 9, 0>>]

\* sl local_address rem_address st tx_queue:rx_queue tr:tm->when retrnsmt
\* uid timeout inode ref pointer
TableLine(local, state, inode) ==
    <<"0:", local, "00000000:0000", state, "00000000:00000000", "00:00000000",
      "00000000", "1000", "0", inode, "1", "0000000000000000">>

TableHeader == TableLine(NoColon, "st", <<>>)

TableLineChoices ==
    { TableLine(Wild8080, "0A", <<5, 4, 3, 2, 1>>),
      TableLine(Loop80, "0A", <<1, 0, 2>>),
      TableLine(Wild8080, "01", <<5, 4, 3, 2, 1>>),
      TableLine(ShortAddr, "0A", <<1, 0, 2>>),
      TableLine(NoColon, "0A", <<1, 0, 2>>),
      TableLine(BadPort, "0A", <<1, 0, 2>>),
      TableLine(Loop80, "0A", <<NotADigit>>),
      SubSeq(TableLine(Loop80, "0A", <<1, 0, 2>>), 1, 10),
      SubSeq(TableLine(Wild8080, "0A", <<5, 4, 3, 2, 1>>), 1, 9) }

\* /proc/<pid>/fd/<n> -> socket:[inode]
FdLinkChoices ==
    { [pid |-> 4242, inode |-> 54321], [pid |-> 2, inode |-> 54321],
      [pid |-> 2, inode |-> 102] }

InitTable ==
    /\ DiffIdle
    /\ ChainIdle
    /\ EngineIdle
    /\ SelIdle
    /\ table_protocol \in Protocols
    /\ table_lines \in {<<TableHeader>> \o lines : lines \in SeqUpTo(TableLineChoices, MaxTableLines)}
    /\ fd_links \in SeqUpTo(FdLinkChoices, MaxFdLinks)
    /\ table_records = None
    /\ table_pc = "read"
    /\ unreadable = {}
    /\ table_result = None
    /\ table_answer = None
    /\ DisplayIdle
    /\ PidIdle
    /\ ToolIdle

\* /proc/net/tcp, /proc/net/udp
TablePath(protocol) == "/proc/net/" \o protocol

\* read_*_connections where a table that cannot be read is an error
read_connections_strict(protocol, lines) ==
    IF TablePath(protocol) \in unreadable THEN Err(IoError)
    ELSE Ok(IF protocol = "tcp" THEN parse_tcp_content(lines) ELSE parse_udp_content(lines))

\* read_tcp_connections / read_udp_connections (procfs.rs:65-99): a table
\* that cannot be read adds nothing ("if let Ok(content)"); the IPv6 table
\* cannot be read
read_connections(protocol, lines) ==
    Ok(IF TablePath(protocol) \in unreadable THEN <<>>
       ELSE IF protocol = "tcp" THEN parse_tcp_content(lines)
       ELSE parse_udp_content(lines))

\* list_processes, lines 37-47: the "?" returns an error of the read
ReadTable ==
    /\ table_pc = "read"
    /\ LET r == read_connections(table_protocol, table_lines)
       IN  IF r.ok
           THEN /\ table_records' = Some(r.value)
                /\ table_pc' = "enrich"
                /\ table_result' = table_result
           ELSE /\ table_records' = table_records
                /\ table_pc' = "done"
                /\ table_result' = Some(r)
    /\ UNCHANGED <<table_protocol, table_lines, fd_links, unreadable, table_answer>>
    /\ UNCHANGED <<diffVars, chainVars, engineVars, selVars, displayVars, pidVars, toolVars>>

\* self.enrich_with_process_info(&mut processes).await?; Ok(processes)
EnrichTable ==
    /\ table_pc = "enrich"
    /\ LET e == enrich_with_process_info(Unwrap(table_records), fd_links,
                                         mgr.pid_cache, mgr.last_update, now)
       IN  /\ table_records' = Some(e.records)
           /\ table_result' = Some(Ok(e.records))
           /\ mgr' = [mgr EXCEPT !.pid_cache = e.pid_cache, !.last_update = e.last_update]
    /\ table_pc' = "done"
    /\ UNCHANGED <<table_protocol, table_lines, fd_links, unreadable, table_answer>>
    /\ UNCHANGED <<diffVars, chainVars, selVars, cacheVars, now, syncVars, bgVars,
                   lockVars, obs, displayVars, pidVars, toolVars>>

NextTable ==
    \/ ReadTable
    \/ EnrichTable

SpecTable == InitTable /\ [][NextTable]_vars

(***************************************************************************)
(* SpecTableFaults: list_processes / check_port of the kernel-table        *)
(* resolver on a host with two listening sockets, of pid 1 and pid 2,      *)
(* where any of the paths FaultPaths cannot be read; then the Selector's   *)
(* match on the result (adaptive.rs:66-70, 114-118, 129-133).              *)
(***************************************************************************)
FaultPaths ==
    {"/proc/net/tcp", "/proc/net/udp", "/proc", "/proc/2/fd", "/proc/2/comm",
     "/proc/2/cmdline", "/proc/2/cwd", "/proc/2/exe"}

FaultPorts == {80, 8080, 443}

InitTableFaults ==
    /\ DiffIdle
    /\ ChainIdle
    /\ EngineIdle
    /\ SelIdle
    /\ table_protocol \in Protocols
    /\ table_lines = <<TableHeader, TableLine(Wild8080, "0A", <<1, 0, 1>>),
                       TableLine(Loop80, "0A", <<1, 0, 2>>)>>
    /\ fd_links = <<[pid |-> 1, inode |-> 101], [pid |-> 2, inode |-> 102]>>
    /\ table_records = None
    /\ table_pc = "read"
    /\ unreadable \in SUBSET FaultPaths
    /\ table_result = None
    /\ table_answer = None
    /\ DisplayIdle
    /\ PidIdle
    /\ ToolIdle

TableFrame ==
    UNCHANGED <<table_protocol, table_lines, fd_links, table_records, unreadable,
                table_result, diffVars, chainVars, engineVars, selVars, displayVars,
                pidVars, toolVars>>

\* list_processes in the Balanced and Complete profiles: the kernel-table
\* resolver's Ok is returned, its Err falls back to the tool chain
KernelTableList ==
    /\ table_pc = "done"
    /\ \E a \in IF Unwrap(table_result).ok
                THEN {[op |-> "list_processes", result |-> Unwrap(table_result),
                       trace |-> <<"procfs">>]}
                ELSE {[op |-> "list_processes", result |-> r,
                       trace |-> <<"procfs", "legacy">>] :
                        r \in LegacyListResults(table_protocol)} :
            table_answer' = Some(a)
    /\ table_pc' = "returned"
    /\ TableFrame

\* ProcfsPortManager::check_port (procfs.rs:59-62) and the Selector's match
\* on it
KernelTableCheckPort ==
    /\ table_pc = "done"
    /\ \E port \in FaultPorts :
        \E a \in IF Unwrap(table_result).ok
                 THEN {[op |-> "check_port",
                        result |-> Ok(FindPort(Unwrap(table_result).value, port)),
                        trace |-> <<"procfs">>]}
                 ELSE {[op |-> "check_port", result |-> r,
                        trace |-> <<"procfs", "legacy">>] :
                         r \in LegacyCheckResults(port, table_protocol)} :
            table_answer' = Some(a)
    /\ table_pc' = "returned"
    /\ TableFrame

NextTableFaults ==
    \/ ReadTable
    \/ EnrichTable
    \/ KernelTableList
    \/ KernelTableCheckPort

SpecTableFaults == InitTableFaults /\ [][NextTableFaults]_vars

(***************************************************************************)
(* SpecDisplay: the three implementations of get_display_path applied to   *)
(* one record, in any order.                                               *)
(***************************************************************************)
\* executable paths, command lines and working directories of the records
DisplayExecutables ==
    {"/usr/local/bin/node", "/usr/sbin/sshd", "/usr/bin/python3", "/usr/bin/test_process",
     "Unknown"}

DisplayCommands ==
    {"/usr/local/bin/node server.js", "/usr/sbin/sshd -D", "npm run start",
     "cat /dev/null", "Unknown"}

DisplayDirectories == {"/", "Unknown", "/home/user/my-project", "/srv"}

InitDisplay ==
    /\ DiffIdle
    /\ ChainIdle
    /\ EngineIdle
    /\ SelIdle
    /\ TableIdle
    /\ PidIdle
    /\ ToolIdle
    /\ \E exe \in DisplayExecutables, command \in DisplayCommands,
          cwd \in DisplayDirectories :
            display_info = Some(ProcessInfo(1234, "name", command, exe, cwd, 3000, "tcp",
                                            "127.0.0.1", Some(12345)))
    /\ display_path = EmptyMap

DisplayStep(implementation, path) ==
    /\ implementation \notin DOMAIN display_path
    /\ display_path' = MapPut(display_path, implementation, path)
    /\ UNCHANGED <<display_info, diffVars, chainVars, engineVars, selVars, tableVars,
                   pidVars, toolVars>>

PortManagerDisplay == DisplayStep("PortManager", get_display_path(Unwrap(display_info)))

ProcfsDisplay == DisplayStep("ProcfsPortManager", procfs_get_display_path(Unwrap(display_info)))

ListCommandDisplay == DisplayStep("ListCommand", list_get_display_path(Unwrap(display_info)))

NextDisplay ==
    \/ PortManagerDisplay
    \/ ProcfsDisplay
    \/ ListCommandDisplay

SpecDisplay == InitDisplay /\ [][NextDisplay]_vars

(***************************************************************************)
(* SpecPidCache: the kernel-table resolver's per-pid cache                 *)
(* (procfs.rs:9-30, 288-314, 386-389): listings of host states owned by    *)
(* pid 1, pid 2 or both, while the clock advances second by second.        *)
(***************************************************************************)
\* seconds the clock advances in one run of SpecPidCache
MaxPidTime == 4

PidHostStates ==
    { <<HostSocket("tcp", 80, 1, 101)>>,
      <<HostSocket("tcp", 443, 2, 104)>>,
      <<HostSocket("tcp", 80, 1, 101), HostSocket("tcp", 443, 2, 104)>> }

InitPidCache ==
    /\ DiffIdle
    /\ ChainIdle
    /\ EngineNew(AdaptiveNew("Complete", TRUE), <<>>)
    /\ SelIdle
    /\ OtherIdle

PidFrame ==
    UNCHANGED <<diffVars, chainVars, selVars, tableVars, displayVars, toolVars, cacheVars,
                syncVars, bgVars, lockVars, obs>>

\* ProcfsPortManager::list_processes on a host state; pid_last keeps the
\* pids it resolved, those it read from the files, the instant, and when
\* each cached entry had been read before
PidListProcesses ==
    /\ \E host \in PidHostStates :
        LET e == EnrichFrom(host, 1, mgr.pid_cache, mgr.last_update, now, <<>>)
        IN  /\ mgr' = ProcfsList(mgr, host, now).mgr
            /\ pid_read_at' = [p \in DOMAIN pid_read_at \cup e.read |->
                                    IF p \in e.read THEN now ELSE pid_read_at[p]]
            /\ pid_last' = Some([pids |-> {host[i].pid : i \in DOMAIN host},
                                 read |-> e.read, at |-> now, read_at |-> pid_read_at])
    /\ now' = now
    /\ PidFrame

\* ProcfsPortManager::clear_cache
PidClearCache ==
    /\ mgr' = ProcfsClearCache(mgr, now)
    /\ pid_read_at' = EmptyMap
    /\ pid_last' = None
    /\ now' = now
    /\ PidFrame

PidElapse ==
    /\ now < MaxPidTime
    /\ now' = now + 1
    /\ UNCHANGED <<mgr, pidVars>>
    /\ PidFrame

NextPidCache ==
    \/ PidListProcesses
    \/ PidClearCache
    \/ PidElapse

SpecPidCache == InitPidCache /\ [][NextPidCache]_vars

(***************************************************************************)
(* Properties                                                              *)
(***************************************************************************)
\* the number of events of a kind that changes holds for a port
EventCount(kind, port) ==
    Cardinality({i \in DOMAIN changes :
                    changes[i].change_type = kind /\ changes[i].process_info.port = port})

\* the record a snapshot holds for a port (the last one listed)
RecordFor(procs, port) ==
    procs[CHOOSE i \in DOMAIN procs :
            procs[i].port = port /\ \A j \in DOMAIN procs : procs[j].port = port => j <= i]

\* C1: compute_changes(old, new) emits exactly one Added event per port in
\* new but not old, one Removed event per port in old but not new, one
\* Modified event per port in both whose pid, name, command or executable
\* path differs, and no other event; on equal snapshots it emits none.
C1_ExactDiff ==
    diff_pc = "done" =>
        /\ \A port \in PortsOf(old_processes) \cup PortsOf(new_processes) :
             LET in_old == port \in PortsOf(old_processes)
                 in_new == port \in PortsOf(new_processes)
                 differs ==
                    LET o == RecordFor(old_processes, port)
                        n == RecordFor(new_processes, port)
                    IN  \/ o.pid # n.pid
                        \/ o.name # n.name
                        \/ o.command # n.command
                        \/ o.executable_path # n.executable_path
             IN  /\ EventCount("Added", port) = IF in_new /\ ~in_old THEN 1 ELSE 0
                 /\ EventCount("Removed", port) = IF in_old /\ ~in_new THEN 1 ELSE 0
                 /\ EventCount("Modified", port) =
                        IF in_old /\ in_new /\ differs THEN 1 ELSE 0
        /\ \A i \in DOMAIN changes :
             /\ changes[i].change_type \in {"Added", "Removed", "Modified"}
             /\ changes[i].process_info.port \in
                    PortsOf(old_processes) \cup PortsOf(new_processes)
        /\ old_processes = new_processes => changes = <<>>

\* a diff with an Added, and a Modified event caused by the command alone
C1_Witness ==
    /\ diff_pc = "done"
    /\ \E i, j \in DOMAIN changes :
         /\ changes[i].change_type = "Added"
         /\ changes[j].change_type = "Modified"
         /\ changes[j].process_info.command = "node other.js"
         /\ old_processes = <<DiffBase(80)>>

\* the tools the claim names, in the claim's order
C9_Order == <<"lsof", "ss", "netstat">>

\* the first tool of C9_Order that succeeds (0: none)
C9_FirstSuccess ==
    IF \A k \in 1..3 : Failed(tool_outcome[C9_Order[k]]) THEN 0
    ELSE CHOOSE k \in 1..3 :
            /\ ~Failed(tool_outcome[C9_Order[k]])
            /\ \A j \in 1..(k - 1) : Failed(tool_outcome[C9_Order[j]])

\* C9: list_processes tries lsof, ss, netstat in that order, returns the
\* first success without running a later tool, discards the errors of lsof
\* and ss, and when all three fail returns netstat's error.
C9_ChainOrder ==
    chain_op = "list_processes" =>
        /\ \A i \in DOMAIN invoked : invoked[i] = C9_Order[i]
        /\ \A i \in 1..(Len(invoked) - 1) : Failed(tool_outcome[invoked[i]])
        /\ chain_pc = 0 =>
             /\ chain_result # None
             /\ IF C9_FirstSuccess = 0
                THEN /\ invoked = C9_Order
                     /\ ~Unwrap(chain_result).ok
                     /\ Unwrap(chain_result).error.names = {"netstat"}
                ELSE /\ invoked = SubSeq(C9_Order, 1, C9_FirstSuccess)
                     /\ Unwrap(chain_result).ok
                     /\ Unwrap(chain_result) =
                            TryTool(C9_Order[C9_FirstSuccess], chain_op,
                                    tool_outcome[C9_Order[C9_FirstSuccess]],
                                    chain_port, chain_protocol)

\* lsof failed, ss succeeded with a socket, netstat was not run
C9_Witness ==
    /\ chain_op = "list_processes"
    /\ chain_pc = 0
    /\ invoked = <<"lsof", "ss">>
    /\ chain_result # None
    /\ Unwrap(chain_result).ok
    /\ Unwrap(chain_result).value # <<>>

\* C10: when every tool fails (cannot be spawned or exits non-zero), both
\* list_processes and check_port return CommandFailed whose message names
\* the final tool and says tools may be missing; a successful run with no
\* matching socket yields an empty list / none, never an error.
C10_AllToolsFail ==
    (chain_pc = 0 /\ chain_op # "unused") =>
        /\ (\A tool \in DOMAIN tool_outcome : Failed(tool_outcome[tool])) =>
             /\ ~Unwrap(chain_result).ok
             /\ Unwrap(chain_result).error.kind = "CommandFailed"
             /\ "netstat" \in Unwrap(chain_result).error.names
             /\ DisplayHasHint(Unwrap(chain_result).error)
        /\ (\A tool \in DOMAIN tool_outcome : tool_outcome[tool] = Success(<<>>)) =>
             /\ Unwrap(chain_result).ok
             /\ Unwrap(chain_result).value =
                    IF chain_op = "list_processes" THEN <<>> ELSE None

\* the caller's operation looked at a fresh entry:
\* now - lastUpdatedAt < updateInterval
FreshRead == obs.op_age # None /\ Unwrap(obs.op_age) < DefaultUpdateInterval

\* the answer of the PortIndex for a port and a protocol
IndexAnswer(port, protocol) ==
    IF port \in DOMAIN process_map /\ process_map[port].protocol = protocol
    THEN Some(process_map[port]) ELSE None

\* C2: a get_processes or get_port that finds the protocol's entry fresh
\* makes no call of the Selector (list_processes or check_port) and returns
\* the cached list, resp. the PortIndex's record or not-found.
C2_FreshReadNoResolverCall ==
    FreshRead =>
        /\ obs.op_calls = 0
        /\ sync_pc \in {"idle", "read"}
        /\ sync_ret # None =>
             /\ Unwrap(sync_ret).op \in {"get_processes", "get_port"}
             /\ Unwrap(sync_ret).op = "get_processes" =>
                    Unwrap(sync_ret).result = Ok(GetOrDefault(processes, sync_protocol))
             /\ Unwrap(sync_ret).op = "get_port" =>
                    Unwrap(sync_ret).result = Ok(IndexAnswer(sync_port, sync_protocol))

\* a fresh get_port has answered with the record of the index, and the
\* cached list of the protocol is not empty
C2_Witness ==
    /\ FreshRead
    /\ sync_ret # None
    /\ Unwrap(sync_ret).op = "get_port"
    /\ Unwrap(sync_ret).result.ok
    /\ Unwrap(sync_ret).result.value # None
    /\ GetOrDefault(processes, sync_protocol) # <<>>

\* the caller's operation looked at an absent or a stale entry
StaleRead == obs.op_age = None \/ Unwrap(obs.op_age) >= DefaultUpdateInterval

\* get_processes has returned after finding the entry absent or stale
StaleGetProcessesReturned ==
    /\ sync_pc = "idle"
    /\ sync_ret # None
    /\ Unwrap(sync_ret).op = "get_processes"
    /\ StaleRead

\* C3 as stated: get_processes on an absent or stale entry performs one
\* synchronous refresh through the Selector before returning, and the list
\* it returns is the list stored by that refresh.
C3_ReturnsRefreshedList ==
    StaleGetProcessesReturned =>
        /\ obs.op_calls = 1
        /\ Unwrap(sync_ret).result.ok =>
             /\ obs.op_stored # None
             /\ Unwrap(sync_ret).result.value = Unwrap(obs.op_stored)

\* C3 amended: get_processes on an absent or stale entry performs one
\* synchronous refresh through the Selector before returning, and the list
\* it returns is the list stored by that refresh, unless the monitoring
\* task stored a list for the protocol between that store and the read
\* back, in which case it returns the monitoring task's list.
C3_ReturnsLatestStoredList ==
    StaleGetProcessesReturned =>
        /\ obs.op_calls = 1
        /\ Unwrap(sync_ret).result.ok =>
             /\ obs.op_stored # None
             /\ Unwrap(sync_ret).result.value =
                    IF obs.op_overwritten = None
                    THEN Unwrap(obs.op_stored)
                    ELSE Unwrap(obs.op_overwritten)

\* a stale get_processes has refreshed and returned its own non-empty list
\* while the monitoring task was running
C3_Witness ==
    /\ StaleGetProcessesReturned
    /\ Unwrap(sync_ret).result.ok
    /\ obs.op_overwritten = None
    /\ Unwrap(sync_ret).result.value # <<>>
    /\ obs.op_age # None
    /\ bg_pc \notin {"none", "cancelled"}

\* C4: after any sequence of refreshes the change log never holds more
\* than 1000 entries, and immediately after a trim (the only step that
\* shortens the log) it holds exactly 500 entries, the most recent ones in
\* their original order.
C4_TrimKeeps500 ==
    [][/\ Len(change_log') <= ChangeLogCap
       /\ Len(change_log') < Len(change_log) =>
            /\ Len(change_log') = ChangeLogDrain
            /\ \A i \in 1..ChangeLogDrain :
                    i + Len(change_log) - Len(change_log') \in DOMAIN change_log =>
                        change_log'[i] = change_log[i + Len(change_log) - Len(change_log')]]_vars

\* C5: after every refresh of a protocol, by get_processes or by the
\* monitoring task, the PortIndex has no entry for a port that was in the
\* protocol's previous snapshot and is absent from the new one.
C5_IndexDropsRemovedPorts ==
    [][/\ (sync_pc = "store" /\ sync_pc' = "read") =>
            \A port \in PortsOf(sync_local.old) \ PortsOf(sync_local.new) :
                port \notin DOMAIN process_map'
       /\ (bg_pc = "store" /\ bg_pc' # "store") =>
            \A port \in PortsOf(Unwrap(bg_local).old) \ PortsOf(Unwrap(bg_local).new) :
                port \notin DOMAIN process_map']_vars

\* the part of C5 that holds: the refresh made by get_processes
C5_SyncRefreshDropsRemovedPorts ==
    [][(sync_pc = "store" /\ sync_pc' = "read") =>
            \A port \in PortsOf(sync_local.old) \ PortsOf(sync_local.new) :
                port \notin DOMAIN process_map']_vars

\* C6: under any interleaving of a synchronous and a background refresh
\* of the same protocol, each refresh diffs against exactly the snapshot it
\* then overwrites: from its read of the old snapshot to its store, the
\* snapshot it read is still the protocol's entry, the two refreshes are
\* never both in that section, and no step other than its own store
\* writes the snapshots, the timestamps, the PortIndex or the change log.
C6_DiffAgainstOverwrittenSnapshot ==
    [][/\ sync_pc = "store" =>
            /\ sync_local.old = GetOrDefault(processes, sync_protocol)
            /\ bg_pc # "store"
            /\ sync_pc' = "store" => UNCHANGED cacheVars
       /\ bg_pc = "store" =>
            /\ Unwrap(bg_local).old = GetOrDefault(processes, bg_protocols[bg_idx])
            /\ sync_pc # "store"
            /\ bg_pc' = "store" => UNCHANGED cacheVars]_vars

\* the caller is between its read of a non-empty old snapshot and its
\* store while the monitoring task, with a list of its own for the same
\* protocol, waits for the cache lock
C6_Witness ==
    /\ sync_pc = "store"
    /\ sync_local.old # <<>>
    /\ bg_pc = "cache_wait"
    /\ bg_protocols[bg_idx] = sync_protocol
    /\ Unwrap(bg_local).new # sync_local.new

\* force_refresh has returned and the caller has started nothing since
AfterForceRefresh ==
    /\ sync_pc = "idle"
    /\ sync_ret # None
    /\ Unwrap(sync_ret).op = "force_refresh"

\* what force_refresh does to the cache and to the kernel-table resolver
ForceRefreshEffects ==
    /\ (sync_pc = "idle" /\ sync_pc' = "clear_cache") =>
            /\ processes' = EmptyMap
            /\ process_map' = EmptyMap
            /\ last_updated' = EmptyMap
            /\ change_log' = change_log
    /\ (sync_pc = "clear_cache" /\ sync_pc' = "idle") =>
            /\ mgr'.pid_cache = EmptyMap
            /\ change_log' = change_log

\* C7 as stated: force_refresh empties the snapshots, the PortIndex and
\* the timestamps, leaves the change log unchanged and empties the
\* kernel-table resolver's per-pid detail cache; the next get_processes for
\* any protocol therefore calls the Selector.
C7_ForceRefreshThenSelector ==
    [][/\ ForceRefreshEffects
       /\ (AfterForceRefresh /\ sync_pc' \in {"update_processes", "read"}) =>
            sync_pc' = "update_processes"]_vars

\* C7 amended: force_refresh empties the snapshots, the PortIndex and the
\* timestamps, leaves the change log unchanged and empties the
\* kernel-table resolver's per-pid detail cache; the next get_processes for
\* a protocol calls the Selector unless the monitoring task has stored a
\* refresh of that protocol since the clear.
C7_ForceRefreshThenSelectorUnlessRefreshed ==
    [][/\ ForceRefreshEffects
       /\ (/\ AfterForceRefresh
           /\ sync_pc' \in {"update_processes", "read"}
           /\ sync_protocol' \notin obs.since_clear) =>
            sync_pc' = "update_processes"]_vars

\* force_refresh has returned on a manager that reads the kernel tables:
\* the cache is empty, the change log is not, nothing was stored since
C7_Witness ==
    /\ AfterForceRefresh
    /\ mgr.use_procfs
    /\ change_log # <<>>
    /\ processes = EmptyMap
    /\ process_map = EmptyMap
    /\ last_updated = EmptyMap
    /\ obs.since_clear = {}

C11_CheckPortFallsThrough ==
    (chain_op = "check_port" /\ chain_pc = 0) =>
        \A k \in 1..2 :
            (\A j \in 1..k : Failed(tool_outcome[C9_Order[j]])) =>
                /\ Len(invoked) > k
                /\ invoked[k + 1] = C9_Order[k + 1]

\* the result of the whole chain for an operation on given tool outcomes:
\* the result of the first tool at which the chain returns
\* (port/mod.rs:69-80, 83-100)
RunChain(op, outcomes, port, protocol) ==
    LET result(k) == TryTool(ChainOrder[k], op, outcomes[ChainOrder[k]], port, protocol)
        last == CHOOSE k \in 1..Len(ChainOrder) :
                    /\ Returns(k, result(k))
                    /\ \A j \in 1..(k - 1) : ~Returns(j, result(j))
    IN  result(last)

\* C12 (tool chain, lsof answering both calls): with the system unchanged,
\* so that lsof prints the same socket for the list and for the port query,
\* if list_processes returns a record with port P then check_port(P)
\* returns that same record: same pid, name, command line, executable
\* path, working directory, port, protocol and address.
C12_CheckPortMatchesList ==
    (chain_op = "check_port" /\ chain_pc = 0 /\ ~Failed(tool_outcome["lsof"])) =>
        LET listed == RunChain("list_processes", tool_outcome, chain_port, chain_protocol)
        IN  listed.ok =>
                \A i \in DOMAIN listed.value :
                    listed.value[i].port = chain_port =>
                        Unwrap(chain_result) = Ok(Some(listed.value[i]))

\* the chain's result as the steps of list_processes_unix and
\* check_port_unix_optimized reach it is RunChain's
ChainResultIsRunChain ==
    (chain_op # "unused" /\ chain_pc = 0) =>
        Unwrap(chain_result) = RunChain(chain_op, tool_outcome, chain_port, chain_protocol)

C14_FastCheckPortFirstResolver ==
    \A r \in sel_last :
        (r.op = "check_port" /\ r.before.performance_profile = "Fast") =>
            r.trace = IF r.before.use_procfs THEN <<"procfs">> ELSE <<"legacy">>

SelLastResolver(r) == r.trace[Len(r.trace)]

\* C15: under the Balanced and Complete profiles list_processes and
\* check_port never return the kernel-table resolver's error: an answer
\* that comes from the kernel-table resolver is an Ok, and after its error
\* the call returns what the tool chain returns for the same arguments.
C15_KernelTableErrorFallsBack ==
    \A r \in sel_last :
        (r.op \in {"list_processes", "check_port"}
            /\ r.before.performance_profile \in {"Balanced", "Complete"}) =>
            /\ r.result # Some(Err(ProcfsError))
            /\ SelLastResolver(r) = "procfs" => Unwrap(r.result).ok
            /\ SelLastResolver(r) = "legacy" =>
                    Unwrap(r.result) \in
                        IF r.op = "list_processes" THEN LegacyListResults(r.arg)
                        ELSE UNION {LegacyCheckResults(port, r.arg) : port \in Ports}

\* a Balanced list_processes that measured the kernel-table resolver as
\* the faster one, asked it, got its error and asked the tool chain
C15_Witness ==
    \E r \in sel_last :
        /\ procfs_faulty
        /\ r.op = "list_processes"
        /\ r.before.performance_profile = "Balanced"
        /\ r.trace = <<"procfs_benchmark", "legacy_benchmark", "procfs", "legacy">>

\* a Complete check_port answered by the tool chain after the
\* kernel-table resolver's error
C15_WitnessCheckPort ==
    \E r \in sel_last :
        /\ r.op = "check_port"
        /\ r.before.performance_profile = "Complete"
        /\ r.trace = <<"procfs", "legacy">>

\* C16: on a host without the kernel tables the Selector never has the
\* kernel-table resolver enabled, set_procfs_enabled(true) included, and
\* no operation of any profile runs it, to list, to check or to measure.
C16_UnavailableNeverInvoked ==
    ~procfs_available =>
        /\ ~mgr.use_procfs
        /\ \A r \in sel_last :
                /\ ~r.before.use_procfs
                /\ Range(r.trace) \subseteq {"legacy", "legacy_benchmark"}

\* without the kernel tables, a Balanced list_processes that benchmarks,
\* made right after set_procfs_enabled(true)
C16_Witness ==
    \E r \in sel_last :
        /\ ~procfs_available
        /\ r.op = "list_processes"
        /\ r.before.performance_profile = "Balanced"
        /\ r.prev = "set_procfs_enabled" /\ r.prev_arg = "true"
        /\ r.trace = <<"legacy_benchmark", "legacy">>

\* the call measured the resolvers: the tool chain, and the kernel-table
\* resolver where the Selector may use it
SelBenchmarked(r) == "legacy_benchmark" \in Range(r.trace)

SelBenchmarkedBoth(r) ==
    /\ "legacy_benchmark" \in Range(r.trace)
    /\ r.before.use_procfs => "procfs_benchmark" \in Range(r.trace)

SelBalancedList(r) ==
    r.op = "list_processes" /\ r.before.performance_profile = "Balanced"

\* more than 30 minutes since the recorded benchmark time
SelBenchmarkIsOld(r) ==
    \E last \in r.before.last_performance_check : r.at - last > BenchmarkInterval

\* both latencies recorded and their ratio strictly between 0.8 and 1.2
SelLatenciesClose(r) ==
    \E p \in r.before.procfs_performance : \E l \in r.before.legacy_performance :
        10 * p > 8 * l /\ 10 * p < 12 * l

\* C17 as stated: a Balanced list_processes measures both resolvers
\* whenever no measurement was made before, or the last benchmark is more
\* than 30 minutes old, or the two recorded latencies are within 20% of
\* each other.
C17_BenchmarkOnAnyTrigger ==
    \A r \in sel_last :
        (SelBalancedList(r)
            /\ \/ r.before.legacy_performance = None
               \/ SelBenchmarkIsOld(r)
               \/ SelLatenciesClose(r)) =>
            SelBenchmarkedBoth(r)

\* C17 as the code has it: a Balanced list_processes measures the
\* resolvers exactly when no benchmark time is recorded or the recorded
\* one is more than 30 minutes old, and besides a latency is missing or
\* the two are within 20% of each other; it measures the tool chain, and
\* the kernel-table resolver exactly when the Selector may use it.
C17_BenchmarkWhenDueAndNoClearWinner ==
    \A r \in sel_last :
        SelBalancedList(r) =>
            /\ SelBenchmarked(r) <=>
                    /\ r.before.last_performance_check = None \/ SelBenchmarkIsOld(r)
                    /\ \/ r.before.procfs_performance = None
                       \/ r.before.legacy_performance = None
                       \/ SelLatenciesClose(r)
            /\ SelBenchmarked(r) => SelBenchmarkedBoth(r)
            /\ "procfs_benchmark" \in Range(r.trace) =>
                    SelBenchmarked(r) /\ r.before.use_procfs

\* a Balanced list_processes made more than 30 minutes after a benchmark
\* that found a clear winner: it measures nothing
C17_Witness ==
    \E r \in sel_last :
        /\ SelBalancedList(r)
        /\ SelBenchmarkIsOld(r)
        /\ r.before.procfs_performance # None /\ r.before.legacy_performance # None
        /\ ~SelLatenciesClose(r)
        /\ ~SelBenchmarked(r)

\* a Balanced list_processes that benchmarks again: the benchmark is old
\* and the latencies are close
C17_WitnessRebenchmark ==
    \E r \in sel_last :
        /\ SelBalancedList(r)
        /\ SelBenchmarkIsOld(r)
        /\ SelLatenciesClose(r)
        /\ SelBenchmarkedBoth(r) /\ r.before.use_procfs

\* C18: set_performance_profile(Balanced) leaves the Selector with no
\* recorded latency and no last-checked time, and the list_processes that
\* follows it measures both resolvers again.
C18_SwitchToBalancedClearsHistory ==
    \A r \in sel_last :
        /\ (r.op = "set_performance_profile" /\ r.arg = "Balanced") =>
                /\ mgr.last_performance_check = None
                /\ mgr.procfs_performance = None
                /\ mgr.legacy_performance = None
        /\ (r.op = "list_processes" /\ r.prev = "set_performance_profile"
                /\ r.prev_arg = "Balanced") =>
                SelBenchmarkedBoth(r)

\* C18, the part the code keeps: the switch clears the last-checked time
C18_SwitchToBalancedClearsTime ==
    \A r \in sel_last :
        (r.op = "set_performance_profile" /\ r.arg = "Balanced") =>
            /\ mgr.last_performance_check = None
            /\ mgr.performance_profile = "Balanced"
            /\ mgr.procfs_performance = r.before.procfs_performance
            /\ mgr.legacy_performance = r.before.legacy_performance

\* the k-th smallest element of a set of numbers
KthOf(S, k) == CHOOSE i \in S : Cardinality({j \in S : j < i}) = k - 1

\* the records the table was parsed into, before they are enriched
TableKept ==
    IF table_protocol = "tcp" THEN parse_tcp_content(table_lines)
    ELSE parse_udp_content(table_lines)

\* C19: list_processes of the kernel-table resolver returns, in table
\* order, one record for each kept line whose inode some process holds a
\* socket link to: its pid is a process holding that inode and never 0,
\* its port and protocol are the line's; kept lines whose inode no process
\* holds give no record.
C19_OneRecordPerOwnedLine ==
    table_pc = "done" =>
        LET out == Unwrap(table_records)
            owned == {i \in DOMAIN TableKept :
                        \E l \in Range(fd_links) : Some(l.inode) = TableKept[i].inode}
        IN  /\ Len(out) = Cardinality(owned)
            /\ \A k \in DOMAIN out :
                    LET line == TableKept[KthOf(owned, k)]
                    IN  /\ out[k].pid # 0
                        /\ [pid |-> out[k].pid, inode |-> Unwrap(line.inode)] \in Range(fd_links)
                        /\ out[k].port = line.port
                        /\ out[k].protocol = table_protocol
                        /\ out[k].inode = line.inode
                        /\ out[k].address = line.address

\* the scenario: one listening TCP line on port 8080 with inode 54321, held
\* by pid 4242, gives exactly one record
C19_Witness ==
    /\ table_pc = "done"
    /\ table_protocol = "tcp"
    /\ table_lines = <<TableHeader, TableLine(Wild8080, "0A", <<5, 4, 3, 2, 1>>)>>
    /\ fd_links = <<[pid |-> 4242, inode |-> 54321]>>
    /\ Len(Unwrap(table_records)) = 1
    /\ Unwrap(table_records)[1].pid = 4242
    /\ Unwrap(table_records)[1].port = 8080
    /\ Unwrap(table_records)[1].protocol = "tcp"

\* a kept line whose inode no process holds is dropped next to one that
\* is returned
C19_WitnessOrphan ==
    /\ table_pc = "done"
    /\ Len(TableKept) = 2
    /\ Len(Unwrap(table_records)) = 1

\* a field that is a number of the radix: not empty, digits only
IsNumber(digits, radix) ==
    digits # <<>> /\ \A i \in DOMAIN digits : digits[i] < radix

\* the lines C20 says are kept: at least 10 fields, a local address with a
\* colon and a hexadecimal port of at most 4 digits, a decimal inode, and
\* for TCP the state 0A
C20_Kept(parts) ==
    /\ Len(parts) >= 10
    /\ parts[2].colon /\ IsNumber(parts[2].port, 16) /\ Len(parts[2].port) <= 4
    /\ IsNumber(parts[10], 10)
    /\ table_protocol = "tcp" => parts[4] = "0A"

\* C20: parsing a table gives, in table order, one partial record (pid 0,
\* port and inode of the line) for exactly the lines after the header that
\* have at least 10 fields, a decodable local address, a numeric inode
\* and, for TCP only, the state 0A; the other lines are skipped and the
\* parse does not fail.
C20_ParseKeepsExactlyValidLines ==
    table_pc = "enrich" =>
        LET out == Unwrap(table_records)
            kept == {i \in 2..Len(table_lines) : C20_Kept(table_lines[i])}
        IN  /\ Len(out) = Cardinality(kept)
            /\ \A k \in DOMAIN out :
                    LET parts == table_lines[KthOf(kept, k)]
                    IN  /\ out[k].pid = 0
                        /\ out[k].protocol = table_protocol
                        /\ Some(out[k].port) = ParseRadix(parts[2].port, 16, 1, 0)
                        /\ out[k].inode = ParseRadix(parts[10], 10, 1, 0)

\* a line with fewer than 10 fields before a valid line: the valid line
\* gives the one record
C20_Witness ==
    /\ table_pc = "enrich"
    /\ Len(table_lines) = 3
    /\ Len(table_lines[2]) < 10
    /\ C20_Kept(table_lines[3])
    /\ Len(Unwrap(table_records)) = 1

\* a UDP line kept although its state is not 0A
C20_WitnessUdpState ==
    /\ table_pc = "enrich"
    /\ table_protocol = "udp"
    /\ Len(table_lines) = 2
    /\ table_lines[2][4] = "01"
    /\ Len(Unwrap(table_records)) = 1

\* the byte two hexadecimal characters stand for
C21_Byte(hex, i) == 16 * hex[i] + hex[i + 1]

\* C21: a local address of 8 hexadecimal characters decodes to "*" when
\* all its bytes are zero and otherwise to the dotted decimal text of its
\* four bytes taken last to first ("0100007F" gives "127.0.0.1"); the port
\* is the value of its field read in base 16.
C21_AddressAndPortDecoded ==
    table_pc = "enrich" =>
        LET out == Unwrap(table_records)
            kept == {i \in 2..Len(table_lines) : C20_Kept(table_lines[i])}
        IN  \A k \in DOMAIN out :
                LET field == table_lines[KthOf(kept, k)][2]
                    a == field.addr
                    p == field.port
                IN  /\ (Len(a) = 8 /\ IsNumber(a, 16)) =>
                            out[k].address =
                                IF \A i \in 1..8 : a[i] = 0 THEN "*"
                                ELSE ToString(C21_Byte(a, 7)) \o "." \o ToString(C21_Byte(a, 5))
                                        \o "." \o ToString(C21_Byte(a, 3)) \o "."
                                        \o ToString(C21_Byte(a, 1))
                    /\ Len(p) = 4 =>
                            out[k].port = 4096 * p[1] + 256 * p[2] + 16 * p[3] + p[4]

\* the table holds 0100007F:0050 and 00000000:1F90: the records carry
\* 127.0.0.1 port 80 and * port 8080
C21_Witness ==
    /\ table_pc = "enrich"
    /\ Len(Unwrap(table_records)) = 2
    /\ table_lines[2][2] = Loop80
    /\ table_lines[3][2] = Wild8080
    /\ Unwrap(table_records)[1].address = "127.0.0.1"
    /\ Unwrap(table_records)[1].port = 80
    /\ Unwrap(table_records)[2].address = "*"
    /\ Unwrap(table_records)[2].port = 8080

\* the signatures of interpreters in an executable path and of package
\* managers and development servers in a command line
C22_Signature(info) ==
    \/ \E s \in {"/node", "/python", "/ruby", "/java"} : Contains(info.executable_path, s)
    \/ \E s \in {"npm", "yarn", "pnpm", "next", "serve", "dev"} : Contains(info.command, s)

\* C22: every implementation of get_display_path returns the working
\* directory when it is neither "/" nor "Unknown" and the executable path
\* or the command line carries a recognized signature, and the executable
\* path in every other case; so the three implementations agree.
C22_DisplayPath ==
    \A info \in display_info :
        /\ \A implementation \in DOMAIN display_path :
                display_path[implementation] =
                    IF info.working_directory \notin {"/", "Unknown"} /\ C22_Signature(info)
                    THEN info.working_directory
                    ELSE info.executable_path
        /\ \A a, b \in DOMAIN display_path : display_path[a] = display_path[b]

\* the three implementations have answered for the node server started in
\* /home/user/my-project
C22_Witness ==
    /\ display_info # None
    /\ Unwrap(display_info).executable_path = "/usr/local/bin/node"
    /\ Unwrap(display_info).working_directory = "/home/user/my-project"
    /\ DOMAIN display_path = {"PortManager", "ProcfsPortManager", "ListCommand"}
    /\ \A implementation \in DOMAIN display_path :
            display_path[implementation] = "/home/user/my-project"

\* a system process started in "/srv": the executable path is shown
C22_WitnessSystemProcess ==
    /\ display_info # None
    /\ Unwrap(display_info).executable_path = "/usr/sbin/sshd"
    /\ Unwrap(display_info).command = "/usr/sbin/sshd -D"
    /\ Unwrap(display_info).working_directory = "/srv"
    /\ DOMAIN display_path = {"PortManager", "ProcfsPortManager", "ListCommand"}
    /\ display_path["ListCommand"] = "/usr/sbin/sshd"

\* get_processes has returned a list without a call of the Selector
ReturnedCachedList ==
    /\ sync_pc = "idle"
    /\ sync_ret # None
    /\ Unwrap(sync_ret).op = "get_processes"
    /\ Unwrap(sync_ret).result.ok
    /\ obs.op_calls = 0

\* C23: a get_processes that returns without calling the Selector returns
\* the list a full refresh of that protocol stored: a protocol whose list
\* was never resolved is not answered from the cache, whatever get_port
\* calls were made before.
C23_CachedListWasResolved ==
    ReturnedCachedList =>
        /\ sync_protocol \in DOMAIN processes
        /\ Unwrap(sync_ret).result.value = processes[sync_protocol]

\* C23, the part the code keeps: the list returned is the stored one, or
\* the empty list when none is stored
C23_CachedListOrEmpty ==
    ReturnedCachedList =>
        Unwrap(sync_ret).result.value = GetOrDefault(processes, sync_protocol)

\* get_port has just answered from the cache for a protocol whose entry
\* is fresh
FreshGetPortReturned ==
    /\ FreshRead
    /\ sync_pc = "idle"
    /\ sync_ret # None
    /\ Unwrap(sync_ret).op = "get_port"

\* C24: a get_port(P, protocol) answered while the protocol's entry is
\* fresh returns a record of port P and that protocol whenever the
\* protocol's cached list holds a record of port P.
C24_FreshGetPortFindsListedPort ==
    (FreshGetPortReturned
        /\ \E i \in DOMAIN GetOrDefault(processes, sync_protocol) :
                GetOrDefault(processes, sync_protocol)[i].port = sync_port) =>
        /\ Unwrap(sync_ret).result.ok
        /\ \E record \in Unwrap(sync_ret).result.value :
                record.port = sync_port /\ record.protocol = sync_protocol

\* a step of a get_port that found its protocol's entry absent or stale
GetPortStaleStep == sync_pc' = "check_port" \/ sync_pc \in {"check_port", "port_store"}

\* C25: a get_port on an absent or stale entry never reaches the listing
\* step, has made exactly one call of the Selector (its check_port) when
\* it returns, leaves the record lists and the change log as they were,
\* and a record it returns is the PortIndex's entry of that port.
C25_StaleGetPortChecksOnce ==
    [][GetPortStaleStep =>
        /\ sync_pc' \in {"check_port", "port_store", "idle"}
        /\ processes' = processes
        /\ change_log' = change_log
        /\ sync_pc' = "idle" =>
            /\ obs'.op_calls = 1
            /\ Unwrap(sync_ret').op = "get_port"
            /\ (Unwrap(sync_ret').result.ok /\ Unwrap(sync_ret').result.value # None) =>
                /\ sync_port \in DOMAIN process_map'
                /\ Some(process_map'[sync_port]) = Unwrap(sync_ret').result.value]_vars

\* a get_port on an absent or stale entry has returned a record
C25_Witness ==
    /\ sync_pc = "idle"
    /\ sync_ret # None
    /\ Unwrap(sync_ret).op = "get_port"
    /\ ~FreshRead
    /\ obs.op_calls = 1
    /\ Unwrap(sync_ret).result.ok
    /\ sync_port \in DOMAIN process_map
    /\ Unwrap(sync_ret).result.value = Some(process_map[sync_port])

\* C26: a refresh never replaces a protocol's cached list by a different
\* list that the Selector resolved earlier: the refresh that stores (it
\* leaves its "store" step) does not hold a list older than the cached one.
C26_LaterListNeverOverwritten ==
    [][/\ (sync_pc = "store" /\ sync_pc' # "store" /\ "sync" \in obs.outdated) =>
            processes'[sync_protocol] = processes[sync_protocol]
       /\ (bg_pc = "store" /\ bg_pc' # "store" /\ "bg" \in obs.outdated) =>
            processes'[bg_protocols[bg_idx]] = processes[bg_protocols[bg_idx]]]_vars

\* C26, what the two locks do ensure: the refreshes store one at a time,
\* each the list of one whole Selector call
C26_StoresAreSerialized ==
    ~(sync_pc = "store" /\ bg_pc = "store")

\* the Selector has just failed in the caller's refresh, resp. in the
\* monitoring task's
SyncRefreshFails == sync_pc = "update_processes" /\ sync_pc' = "idle"

BackgroundRefreshFails == bg_pc = "listing" /\ bg_pc' \notin {"listing", "cache"}

\* C27: a refresh in which the Selector fails leaves the record lists,
\* the timestamps, the PortIndex and the change log as they were, and
\* get_processes returns the error.
C27_FailedRefreshKeepsCache ==
    [][/\ SyncRefreshFails =>
            /\ UNCHANGED <<processes, last_updated, process_map, change_log>>
            /\ sync_ret' # None
            /\ Unwrap(sync_ret').op = "get_processes"
            /\ ~Unwrap(sync_ret').result.ok
       /\ BackgroundRefreshFails =>
            UNCHANGED <<processes, last_updated, process_map, change_log>>]_vars

\* get_processes has returned the Selector's error on a stale entry, and
\* the cache still holds that entry and its list
C27_Witness ==
    /\ sync_pc = "idle"
    /\ sync_ret # None
    /\ Unwrap(sync_ret).op = "get_processes"
    /\ ~Unwrap(sync_ret).result.ok
    /\ obs.op_calls = 1
    /\ sync_protocol \in DOMAIN last_updated
    /\ now - last_updated[sync_protocol] >= DefaultUpdateInterval
    /\ GetOrDefault(processes, sync_protocol) # <<>>
    /\ change_log # <<>>

\* the timestamps of a log never go down in log order
NonDecreasing(log) ==
    \A i, j \in DOMAIN log : i < j => log[i].timestamp <= log[j].timestamp

\* the events a step has appended to the change log
Appended == SubSeq(change_log', Len(change_log) + 1, Len(change_log'))

\* C28: the timestamps of the change log never go down in log order,
\* whichever of the two refreshes appended, and the events one refresh
\* appends all carry one timestamp.
C28_LogTimestampsOrdered ==
    [][/\ NonDecreasing(change_log')
       /\ Len(change_log') > Len(change_log) =>
            /\ SubSeq(change_log', 1, Len(change_log)) = change_log
            /\ \A i, j \in DOMAIN Appended : Appended[i].timestamp = Appended[j].timestamp]_vars

\* the log holds the two events of one refresh and later events of the
\* other refresh
C28_Witness ==
    /\ Len(change_log) >= 4
    /\ change_log[1].timestamp = change_log[2].timestamp
    /\ change_log[1].process_info.port # change_log[2].process_info.port
    /\ change_log[Len(change_log)].timestamp > change_log[1].timestamp
    /\ obs.op_stored # None
    /\ bg_pc \notin {"none", "cancelled"}

\* C29: a resolution of a pid whose cache entry was read from the process
\* metadata files 2 seconds ago or more reads the files again, whatever
\* other pids were resolved meanwhile.
C29_EntryExpiresAfterTtl ==
    pid_last # None =>
        \A p \in Unwrap(pid_last).pids :
            (/\ p \in DOMAIN Unwrap(pid_last).read_at
             /\ Unwrap(pid_last).at - Unwrap(pid_last).read_at[p] >= CacheTtl)
                => p \in Unwrap(pid_last).read

\* C29, the part the code keeps: a pid is served from the cache only when
\* it has an entry and some read of the files (of any pid, in this listing
\* or before) is younger than the time-to-live
C29_CacheExpiresAfterTtl ==
    pid_last # None =>
        \A p \in Unwrap(pid_last).pids \ Unwrap(pid_last).read :
            /\ p \in DOMAIN Unwrap(pid_last).read_at
            /\ \/ Unwrap(pid_last).read # {}
               \/ \E q \in DOMAIN Unwrap(pid_last).read_at :
                    Unwrap(pid_last).at - Unwrap(pid_last).read_at[q] < CacheTtl

\* both latencies are recorded when the Balanced listing chooses, and the
\* kernel-table one is strictly the lower
SelKernelTableFaster ==
    \E p \in mgr.procfs_performance : \E l \in mgr.legacy_performance : p < l

\* C30: a Balanced list_processes asks the kernel-table resolver for the
\* listing if and only if both latencies are recorded, the kernel-table
\* latency is strictly the lower and the kernel-table path is available;
\* otherwise the listing is the tool chain's.
C30_BalancedChoosesFaster ==
    \A r \in sel_last :
        SelBalancedList(r) =>
            /\ "procfs" \in Range(r.trace) <=> (SelKernelTableFaster /\ mgr.use_procfs)
            /\ ~(SelKernelTableFaster /\ mgr.use_procfs) => SelLastResolver(r) = "legacy"

\* a Balanced listing was taken from the kernel tables, the faster ones
C30_Witness ==
    \E r \in sel_last :
        /\ SelBalancedList(r)
        /\ SelLastResolver(r) = "procfs"
        /\ SelKernelTableFaster

\* a Balanced listing was taken from the tool chain with the kernel tables
\* available and the two latencies equal
C30_WitnessEqual ==
    \E r \in sel_last :
        /\ SelBalancedList(r)
        /\ SelLastResolver(r) = "legacy"
        /\ mgr.use_procfs
        /\ mgr.procfs_performance # None
        /\ mgr.procfs_performance = mgr.legacy_performance

\* the benchmark state of a manager
SelBenchmarkState(m) ==
    <<m.last_performance_check, m.procfs_performance, m.legacy_performance>>

\* an operation other than the benchmarking routine and the switch to
\* Balanced
SelNoBenchmarkOp(r) ==
    \/ r.op \in {"check_port", "get_performance_stats", "clear_cache"}
    \/ r.op = "set_performance_profile" /\ r.arg \in {"Fast", "Complete"}
    \/ r.op = "list_processes" /\ ~SelBenchmarked(r)

\* a Balanced listing whose benchmark was due while the recorded latencies
\* had a clear winner (adaptive.rs:101-104)
SelDueWithClearWinner(r) ==
    /\ SelBalancedList(r)
    /\ r.before.last_performance_check = None \/ SelBenchmarkIsOld(r)
    /\ r.before.procfs_performance # None
    /\ r.before.legacy_performance # None
    /\ ~SelLatenciesClose(r)

\* C31 as stated: check_port, get_performance_stats, clear_cache,
\* set_performance_profile(Fast or Complete) and a list_processes that runs
\* no benchmark leave the last-checked time and both latencies unchanged.
C31_OnlyBenchmarkChangesState ==
    \A r \in sel_last :
        SelNoBenchmarkOp(r) => SelBenchmarkState(mgr) = SelBenchmarkState(r.before)

\* C31, amended: those operations leave both latencies unchanged, and leave
\* the last-checked time unchanged except in a Balanced list_processes whose
\* benchmark was due with a clear winner: that call runs no benchmark and
\* sets the last-checked time to the instant of the call.
C31_OnlyBenchmarkChangesLatencies ==
    \A r \in sel_last :
        SelNoBenchmarkOp(r) =>
            /\ mgr.procfs_performance = r.before.procfs_performance
            /\ mgr.legacy_performance = r.before.legacy_performance
            /\ mgr.last_performance_check =
                    IF SelDueWithClearWinner(r) THEN Some(r.at)
                    ELSE r.before.last_performance_check

\* a Balanced list_processes ran no benchmark with latencies and a
\* last-checked time recorded, and left them as they were
C31_Witness ==
    \E r \in sel_last :
        /\ SelBalancedList(r)
        /\ ~SelBenchmarked(r)
        /\ r.before.last_performance_check # None
        /\ r.before.procfs_performance # None
        /\ SelBenchmarkState(mgr) = SelBenchmarkState(r.before)

\* a Balanced list_processes ran no benchmark and moved the last-checked time
C31_WitnessClearWinner ==
    \E r \in sel_last :
        /\ SelDueWithClearWinner(r)
        /\ ~SelBenchmarked(r)
        /\ mgr.last_performance_check = Some(r.at)
        /\ mgr.last_performance_check # r.before.last_performance_check

\* C32: the kernel-table resolver's list_processes and check_port return
\* Ok whatever cannot be read, so the Selector's answer is the resolver's
\* own and the tool chain is not asked; when /proc cannot be listed the
\* result is the empty list.
C32_KernelTableNeverFails ==
    /\ \A r \in table_result :
        /\ r.ok
        /\ "/proc" \in unreadable => r.value = <<>>
    /\ \A a \in table_answer :
        /\ a.result.ok
        /\ a.trace = <<"procfs">>
        /\ a.op = "list_processes" => a.result = Unwrap(table_result)

\* the table was read and parsed, /proc could not be listed, and the
\* Selector returned the kernel-table resolver's empty list
C32_Witness ==
    /\ table_pc = "returned"
    /\ TablePath(table_protocol) \notin unreadable
    /\ "/proc" \in unreadable
    /\ Unwrap(table_answer).op = "list_processes"
    /\ Unwrap(table_answer).result = Ok(<<>>)
    /\ Unwrap(table_answer).trace = <<"procfs">>

\* the record of a pid in the list that list_processes returned
TableRecordOf(pid) ==
    LET out == Unwrap(table_result).value
    IN  out[CHOOSE i \in DOMAIN out : out[i].pid = pid]

\* C33: a table that cannot be read gives list_processes an Ok with no
\* entry; when the tables and the fd directories can be read both sockets
\* are returned, the record of pid 1 with all its details, and the record
\* of pid 2 with "Unknown" in exactly the fields whose file (comm, cmdline,
\* cwd; exe and cmdline for the executable) could not be read.
C33_ReadFailuresDegrade ==
    \A r \in table_result :
        /\ r.ok
        /\ TablePath(table_protocol) \in unreadable => r.value = <<>>
        /\ (unreadable \cap {TablePath(table_protocol), "/proc", "/proc/2/fd"} = {}) =>
            /\ {r.value[i].pid : i \in DOMAIN r.value} = {1, 2}
            /\ Len(r.value) = 2
            /\ TableRecordOf(1).name = "node"
            /\ TableRecordOf(1).command = "/usr/bin/node server.js"
            /\ TableRecordOf(1).executable_path = "/usr/bin/node"
            /\ TableRecordOf(1).working_directory = "/srv/app"
            /\ TableRecordOf(2).name =
                    IF "/proc/2/comm" \in unreadable THEN "Unknown" ELSE "nginx"
            /\ TableRecordOf(2).command =
                    IF "/proc/2/cmdline" \in unreadable THEN "Unknown"
                    ELSE "/usr/sbin/nginx -g daemon"
            /\ TableRecordOf(2).working_directory =
                    IF "/proc/2/cwd" \in unreadable THEN "Unknown" ELSE "/"
            /\ TableRecordOf(2).executable_path =
                    IF {"/proc/2/exe", "/proc/2/cmdline"} \subseteq unreadable
                    THEN "Unknown" ELSE "/usr/sbin/nginx"

\* only the comm file of pid 2 could not be read: its record has the name
\* "Unknown" and its other details, beside the full record of pid 1
C33_Witness ==
    /\ table_pc = "done"
    /\ unreadable = {"/proc/2/comm"}
    /\ Len(Unwrap(table_result).value) = 2
    /\ TableRecordOf(2).name = "Unknown"
    /\ TableRecordOf(2).command = "/usr/sbin/nginx -g daemon"
    /\ TableRecordOf(1).name = "node"

\* the table of the protocol could not be read and list_processes returned
\* an empty Ok
C33_WitnessNoTable ==
    /\ table_pc = "done"
    /\ TablePath(table_protocol) \in unreadable
    /\ table_result = Some(Ok(<<>>))

(***************************************************************************)
(* C34: every record a resolver returns carries the local port and the     *)
(* protocol of the socket it was built from; the tool chain's              *)
(* check_port(P, proto) returns a record only for a socket whose local     *)
(* port is P and whose protocol is proto.                                  *)
(***************************************************************************)
\* the socket of the host that belongs to a returned record (one per pid)
ChainSocketOf(record) == {line \in ChainLines : line.pid = record.pid}

RecordMatchesSocket(record) ==
    /\ ChainSocketOf(record) # {}
    /\ \A line \in ChainSocketOf(record) :
          record.port = line.port /\ record.protocol = line.protocol

ChainCheckPortReturned ==
    /\ chain_op = "check_port"
    /\ chain_result # None
    /\ Unwrap(chain_result).ok
    /\ Unwrap(chain_result).value # None

\* C34: a record returned by the tool chain's list_processes or check_port
\* has the local port and the protocol of its socket, and check_port's
\* record has the port and the protocol that were asked for
C34_RecordMatchesSocket ==
    /\ (chain_op = "list_processes" /\ chain_result # None /\ Unwrap(chain_result).ok)
          => \A i \in DOMAIN Unwrap(chain_result).value :
                RecordMatchesSocket(Unwrap(chain_result).value[i])
    /\ ChainCheckPortReturned
          => LET record == Unwrap(Unwrap(chain_result).value)
             IN  /\ record.port = chain_port
                 /\ record.protocol = chain_protocol
                 /\ RecordMatchesSocket(record)

(***************************************************************************)
(* SpecParse: parse_lsof_output (port/mod.rs:411-526) on a listing of      *)
(* socket lines, one step per pass, with the subprocesses it spawns        *)
(***************************************************************************)
MaxParseLines == 2

ParseLineChoices ==
    { SocketLine("node", 1, "tcp", "*", 80),
      SocketLine("node", 1, "tcp", "*", 443),
      SocketLine("nginx", 2, "tcp", "127.0.0.1", 8080) }

\* TokioCommand::new("lsof").arg("-p").arg(&pid_list)
LsofDetailsQuery(pids) == [program |-> "lsof", option |-> "-p", pids |-> pids]

\* ProcessDetails (port/mod.rs:24-28)
ProcessDetails(executable_path, working_directory) ==
    [executable_path |-> executable_path, working_directory |-> working_directory]

\* a variant that asks for each pid on its own and always gets an answer
get_all_process_details_per_pid(pids, outcome) ==
    [spawned |-> [i \in DOMAIN pids |-> LsofDetailsQuery(<<pids[i]>>)],
     value |-> Ok([pid \in Range(pids) |->
                    ProcessDetails(LsofExecutable(pid), LsofWorkingDirectory(pid))])]

\* get_all_process_details (port/mod.rs:135-208): the subprocesses it spawns
\* and the map it returns; outcome.described holds the pids the output of
\* the query has lines for
get_all_process_details(pids, outcome) ==
    IF pids = <<>> THEN [spawned |-> <<>>, value |-> Ok(EmptyMap)]
    ELSE [spawned |-> <<LsofDetailsQuery(pids)>>,
          value |-> Ok([pid \in Range(pids) |->
                        IF outcome.status = "success" /\ pid \in outcome.described
                        THEN ProcessDetails(LsofExecutable(pid), LsofWorkingDirectory(pid))
                        ELSE ProcessDetails(Unknown, Unknown)])]

\* the record the second pass builds for a line from the batch result
\* (port/mod.rs:487-523)
LsofRecordFrom(line, details) ==
    LET full_command == line.command
        found == line.pid \in DOMAIN details
        executable_path ==
            IF found /\ details[line.pid].executable_path # Unknown
            THEN details[line.pid].executable_path
            ELSE extract_executable_path(full_command)
        working_directory ==
            IF found THEN details[line.pid].working_directory ELSE Unknown
    IN  ProcessInfo(line.pid, extract_process_name(full_command), full_command,
                    executable_path, working_directory, line.port, line.protocol,
                    line.address, None)

BatchOutcomes ==
    {[status |-> "spawn_error", described |-> {}], [status |-> "nonzero_exit", described |-> {}]}
        \cup {[status |-> "success", described |-> d] : d \in SUBSET {1, 2}}

ParseInit ==
    /\ parse_lines \in SeqUpTo(ParseLineChoices, MaxParseLines)
    /\ batch_outcome \in BatchOutcomes
    /\ parse_pc = "first_pass"
    /\ basic_process_info = <<>>
    /\ process_details = None
    /\ spawned = <<>>
    /\ parse_result = None

ParseFrame == UNCHANGED <<diffVars, chainVars, engineVars, selVars, tableVars, displayVars,
                          pidVars, killVars, parse_lines, batch_outcome>>

\* first pass (port/mod.rs:415-475): basic_process_info of every line
ParseFirstPass ==
    /\ parse_pc = "first_pass"
    /\ basic_process_info' = parse_lines
    /\ parse_pc' = "batch"
    /\ UNCHANGED <<process_details, spawned, parse_result>>
    /\ ParseFrame

\* let pids = ...; get_all_process_details(&pids).await? (port/mod.rs:477-484)
ParseResolveDetails ==
    /\ parse_pc = "batch"
    /\ LET pids == [i \in DOMAIN basic_process_info |-> basic_process_info[i].pid]
           r == get_all_process_details(pids, batch_outcome)
       IN  /\ spawned' = spawned \o r.spawned
           /\ IF r.value.ok
              THEN /\ process_details' = Some(r.value.value)
                   /\ parse_pc' = "second_pass"
                   /\ parse_result' = parse_result
              ELSE /\ process_details' = process_details
                   /\ parse_pc' = "done"
                   /\ parse_result' = Some(r.value)
    /\ UNCHANGED basic_process_info
    /\ ParseFrame

\* second pass (port/mod.rs:486-525)
ParseSecondPass ==
    /\ parse_pc = "second_pass"
    /\ parse_result' = Some(Ok([i \in DOMAIN basic_process_info |->
                            LsofRecordFrom(basic_process_info[i], Unwrap(process_details))]))
    /\ parse_pc' = "done"
    /\ UNCHANGED <<basic_process_info, process_details, spawned>>
    /\ ParseFrame

InitParse ==
    /\ DiffIdle
    /\ ChainIdle
    /\ EngineIdle
    /\ SelIdle
    /\ TableIdle
    /\ DisplayIdle
    /\ PidIdle
    /\ KillIdle
    /\ ParseInit

NextParse ==
    \/ ParseFirstPass
    \/ ParseResolveDetails
    \/ ParseSecondPass

SpecParse == InitParse /\ [][NextParse]_vars

(***************************************************************************)
(* C35: parse_lsof_output collects the pids of all parsed lines first and  *)
(* resolves their details with one batched query; a pid missing from the   *)
(* batch result is resolved by a per-pid fallback query; no other          *)
(* subprocess is spawned.                                                  *)
(***************************************************************************)
ParsePids == [i \in DOMAIN parse_lines |-> parse_lines[i].pid]

\* the pids the batched query gave no details for
MissingFromBatch ==
    {pid \in Range(ParsePids) :
        ~(batch_outcome.status = "success" /\ pid \in batch_outcome.described)}

\* C35 as stated: when parsing is done every pid missing from the batch
\* result has been asked for by a query of its own after the batched one
C35_MissingPidQueriedAgain ==
    parse_pc = "done"
        => \A pid \in MissingFromBatch :
              \E k \in 2..Len(spawned) : spawned[k].pids = <<pid>>

\* C35 (amended): the only subprocess of a parse is one batched query for
\* the pids of all lines, spawned after the first pass (none when no line
\* was parsed); a pid missing from its result is not asked for again: its
\* record has the first word of the line's command column as executable
\* path and "Unknown" as working directory
C35_OneBatchedQueryNoFallback ==
    /\ parse_pc \in {"first_pass", "batch"} => spawned = <<>>
    /\ parse_pc \in {"second_pass", "done"}
          => /\ basic_process_info = parse_lines
             /\ spawned = IF parse_lines = <<>> THEN <<>>
                          ELSE <<LsofDetailsQuery(ParsePids)>>
    /\ parse_pc = "done"
          => /\ parse_result # None
             /\ Unwrap(parse_result).ok
             /\ DOMAIN Unwrap(parse_result).value = DOMAIN parse_lines
             /\ \A i \in DOMAIN parse_lines :
                   LET record == Unwrap(parse_result).value[i]
                   IN  /\ record.pid = parse_lines[i].pid
                       /\ parse_lines[i].pid \in MissingFromBatch
                             => /\ record.working_directory = Unknown
                                /\ record.executable_path
                                      = extract_executable_path(parse_lines[i].command)

\* a parse of two sockets of two processes is done and the batched query
\* described only one of them
C35_Witness ==
    /\ parse_pc = "done"
    /\ Len(parse_lines) = 2
    /\ MissingFromBatch # {}
    /\ MissingFromBatch # Range(ParsePids)
    /\ Len(spawned) = 1

(***************************************************************************)
(* C36: in the monitoring task a refresh that fails for one protocol       *)
(* neither stops the task nor keeps the remaining protocols of that tick,  *)
(* or of a later tick, from being refreshed: unless the handle is aborted, *)
(* every supplied protocol is refreshed again at every tick.               *)
(***************************************************************************)
\* the Selector call of the task returned an error and the handle is not
\* aborted
BackgroundUpdateFailed ==
    /\ bg_pc = "listing"
    /\ bg_pc' \notin {"listing", "cache"}
    /\ ~aborted'

\* the task goes on with the next protocol of the tick, or with the next
\* tick when the failed protocol was the last one
TaskGoesOn ==
    IF bg_idx < Len(bg_protocols)
    THEN bg_pc' = "manager" /\ bg_idx' = bg_idx + 1
    ELSE \/ bg_pc' = "tick"
         \/ bg_pc' = "manager" /\ bg_idx' = 1

\* a tick is due for the task, or its loop body has just started
TickStarts ==
    /\ ~aborted
    /\ \/ bg_pc = "tick" /\ now >= bg_next_tick
       \/ bg_pc = "manager" /\ bg_idx = 1

\* the Selector is being asked for the k-th supplied protocol
Refreshing(k) == bg_pc = "listing" /\ bg_idx = k

\* C36: a failed refresh leaves the task in its loop, at the next protocol
\* or the next tick; and every tick of a task that is not aborted leads to
\* the refresh of each of the supplied protocols, whatever failed before
C36_FailedRefreshDoesNotStopTask ==
    /\ [][BackgroundUpdateFailed => TaskGoesOn]_vars
    /\ \A k \in 1..2 : [](TickStarts => <>(Refreshing(k) \/ aborted))

\* the refresh of the first protocol has failed at every tick so far (it
\* was never stored), a later tick has come, and the task is refreshing
\* the second protocol
C36_Witness ==
    /\ bg_pc = "listing"
    /\ bg_idx = 2
    /\ ~aborted
    /\ "tcp" \notin DOMAIN processes
    /\ bg_next_tick > DefaultUpdateInterval

(***************************************************************************)
(* SpecKill: KillCommand::execute (commands/kill.rs:8-107) with            *)
(* ProcessManager::kill_process (process/mod.rs:11-75), one step per       *)
(* await.  The host: what check_port answers; what the user answers at the *)
(* prompt; the process ("missing", "exits_on_term", "exits_late": alive    *)
(* when looked for and gone when SIGKILL is sent, "ignores_term",          *)
(* "not_permitted": another user's); whether kill and ps can be spawned.   *)
(* kill(1) reports a failure in the words of the C locale.                 *)
(***************************************************************************)
\* Error::PortNotFound(port), Error::ProcessNotFound(pid),
\* Error::PermissionDenied(msg), Error::Other(msg) (error.rs:8-25)
PortNotFound(port) == [kind |-> "PortNotFound", id |-> port]

ProcessNotFound(pid) == [kind |-> "ProcessNotFound", id |-> pid]

PermissionDenied == [kind |-> "PermissionDenied", id |-> 0]

OtherError == [kind |-> "Other", id |-> 0]

KillOwner == SpecificPortRecord(SocketLine("node", 1, "tcp", "*", 80), 80, "tcp")

ProcessKinds == {"missing", "exits_on_term", "exits_late", "ignores_term", "not_permitted"}

KillHosts ==
    [check : {Err(IoError), Ok(None), Ok(Some(KillOwner))},
     answer : {"yes", "no", "error"},
     process : ProcessKinds,
     kill_spawns : BOOLEAN,
     ps_spawns : BOOLEAN]

\* stderr of "kill -TERM <pid>" when it exits non-zero
SigtermStderr(host) ==
    IF host.process = "missing" THEN "kill: (1): No such process"
    ELSE "kill: (1): Operation not permitted"

\* kill_process_unix, lines 17-36: the SIGTERM command and what is made of
\* its failure
SendSigterm(host, pid) ==
    IF ~host.kill_spawns THEN Err(CommandFailed("kill", FALSE))
    ELSE IF host.process \notin {"missing", "not_permitted"} THEN Ok(None)
    ELSE IF Contains(SigtermStderr(host), "No such process") THEN Err(ProcessNotFound(pid))
    ELSE IF Contains(SigtermStderr(host), "Operation not permitted")
    THEN Err(PermissionDenied)
    ELSE Err(CommandFailed("kill", FALSE))

\* a variant that reports every process as still existing
process_exists_always(host, alive) == Ok(TRUE)

\* process_exists_unix (process/mod.rs:66-75): ps -p <pid>
process_exists(host, alive) ==
    IF ~host.ps_spawns THEN Err(CommandFailed("ps", FALSE)) ELSE Ok(alive)

\* a variant that never asks
NeedsConfirmationNever(args) == FALSE

\* "if !force && !json" (commands/kill.rs:20)
NeedsConfirmation(args) == ~args.force /\ ~args.json

KillInit ==
    /\ kill_args \in [port : {80}, protocol : {"tcp"}, force : BOOLEAN, json : BOOLEAN]
    /\ kill_host \in {Some(h) : h \in KillHosts}
    /\ kill_pc = "check_port"
    /\ kill_trace = <<>>
    /\ kill_confirmed = None
    /\ kill_alive = (Unwrap(kill_host).process # "missing")
    /\ kill_process_ret = None
    /\ kill_ret = None

KillFrame == UNCHANGED <<diffVars, chainVars, engineVars, selVars, tableVars, displayVars,
                         pidVars, parseVars, kill_args, kill_host>>

\* KillCommand::execute, lines 16-20 and 89-102: check_port
KillCheckPort ==
    /\ kill_pc = "check_port"
    /\ LET r == Unwrap(kill_host).check
       IN  CASE ~r.ok -> kill_ret' = Some(r) /\ kill_pc' = "done"
             [] r.ok /\ r.value = None ->
                    /\ kill_ret' = Some(Err(PortNotFound(kill_args.port)))
                    /\ kill_pc' = "done"
             [] OTHER ->
                    /\ kill_ret' = kill_ret
                    /\ kill_pc' = IF NeedsConfirmation(kill_args) THEN "prompt" ELSE "sigterm"
    /\ UNCHANGED <<kill_trace, kill_confirmed, kill_alive, kill_process_ret>>
    /\ KillFrame

\* KillCommand::execute, lines 21-41: Confirm::new()...interact()?
KillPrompt ==
    /\ kill_pc = "prompt"
    /\ LET answer == Unwrap(kill_host).answer
       IN  CASE answer = "error" ->
                    /\ kill_ret' = Some(Err(OtherError))
                    /\ kill_pc' = "done"
                    /\ kill_confirmed' = kill_confirmed
             [] answer = "no" ->
                    /\ kill_ret' = Some(Ok(None))
                    /\ kill_pc' = "done"
                    /\ kill_confirmed' = Some(FALSE)
             [] OTHER ->
                    /\ kill_ret' = kill_ret
                    /\ kill_pc' = "sigterm"
                    /\ kill_confirmed' = Some(TRUE)
    /\ UNCHANGED <<kill_trace, kill_alive, kill_process_ret>>
    /\ KillFrame

\* kill_process_unix, lines 17-36: kill -TERM <pid>
KillSigterm ==
    /\ kill_pc = "sigterm"
    /\ LET host == Unwrap(kill_host)
           pid == Unwrap(host.check.value).pid
           r == SendSigterm(host, pid)
       IN  /\ kill_trace' = IF host.kill_spawns
                            THEN Append(kill_trace, [run |-> "kill -TERM", pid |-> pid])
                            ELSE kill_trace
           /\ kill_alive' = IF r.ok /\ host.process = "exits_on_term" THEN FALSE
                            ELSE kill_alive
           /\ IF r.ok
              THEN kill_pc' = "sleep" /\ kill_process_ret' = kill_process_ret
              ELSE kill_pc' = "report" /\ kill_process_ret' = Some(r)
    /\ UNCHANGED <<kill_confirmed, kill_ret>>
    /\ KillFrame

\* kill_process_unix, line 39: sleep(500 ms)
KillSleep ==
    /\ kill_pc = "sleep"
    /\ kill_trace' = Append(kill_trace, [run |-> "sleep", pid |-> 0])
    /\ kill_pc' = "exists"
    /\ UNCHANGED <<kill_confirmed, kill_alive, kill_process_ret, kill_ret>>
    /\ KillFrame

\* kill_process_unix, line 42: process_exists(pid).await?
KillProcessExists ==
    /\ kill_pc = "exists"
    /\ LET host == Unwrap(kill_host)
           r == process_exists(host, kill_alive)
       IN  /\ kill_trace' = IF host.ps_spawns
                            THEN Append(kill_trace, [run |-> "ps -p",
                                                     pid |-> Unwrap(host.check.value).pid])
                            ELSE kill_trace
           /\ CASE ~r.ok -> kill_pc' = "report" /\ kill_process_ret' = Some(r)
                [] r.ok /\ r.value -> kill_pc' = "sigkill" /\ kill_process_ret' = kill_process_ret
                [] OTHER -> kill_pc' = "report" /\ kill_process_ret' = Some(Ok(None))
           /\ kill_alive' = IF host.process = "exits_late" THEN FALSE ELSE kill_alive
    /\ UNCHANGED <<kill_confirmed, kill_ret>>
    /\ KillFrame

\* kill_process_unix, lines 44-59: kill -KILL <pid>
KillSigkill ==
    /\ kill_pc = "sigkill"
    /\ LET host == Unwrap(kill_host)
           pid == Unwrap(host.check.value).pid
       IN  /\ kill_trace' = Append(kill_trace, [run |-> "kill -KILL", pid |-> pid])
           /\ kill_process_ret' = IF kill_alive THEN Some(Ok(None))
                                  ELSE Some(Err(CommandFailed("kill", FALSE)))
    /\ kill_alive' = FALSE
    /\ kill_pc' = "report"
    /\ UNCHANGED <<kill_confirmed, kill_ret>>
    /\ KillFrame

\* KillCommand::execute, lines 43-87 and 105: the result of kill_process is
\* printed and returned
KillReport ==
    /\ kill_pc = "report"
    /\ kill_ret' = kill_process_ret
    /\ kill_pc' = "done"
    /\ UNCHANGED <<kill_trace, kill_confirmed, kill_alive, kill_process_ret>>
    /\ KillFrame

InitKill ==
    /\ DiffIdle
    /\ ChainIdle
    /\ EngineIdle
    /\ SelIdle
    /\ TableIdle
    /\ DisplayIdle
    /\ PidIdle
    /\ ParseIdle
    /\ KillInit

NextKill ==
    \/ KillCheckPort
    \/ KillPrompt
    \/ KillSigterm
    \/ KillSleep
    \/ KillProcessExists
    \/ KillSigkill
    \/ KillReport

SpecKill == InitKill /\ [][NextKill]_vars

(***************************************************************************)
(* C37: kill_process sends SIGTERM first; SIGKILL only after the SIGTERM   *)
(* command succeeded, the wait elapsed and the process still exists; when  *)
(* the SIGTERM command fails no SIGKILL is sent and an error is returned   *)
(* (ProcessNotFound(pid) for a missing process); when the process has      *)
(* exited after SIGTERM no SIGKILL is sent and the result is success.      *)
(***************************************************************************)
KillRuns(command) == {i \in DOMAIN kill_trace : kill_trace[i].run = command}

\* the SIGTERM command could not be spawned or exited non-zero
SigtermFailed ==
    \/ ~Unwrap(kill_host).kill_spawns
    \/ Unwrap(kill_host).process \in {"missing", "not_permitted"}

\* C37: the first command is kill -TERM; kill -KILL comes fourth, after a
\* kill -TERM that succeeded, the wait, and a ps that found the process;
\* a kill_process whose SIGTERM failed returns an error without kill -KILL
\* (ProcessNotFound(pid) when kill said the process is missing); one whose
\* process was found gone after SIGTERM returns Ok without kill -KILL
C37_SigtermThenSigkill ==
    kill_host # None =>
        LET host == Unwrap(kill_host)
        IN  /\ kill_trace # <<>> => kill_trace[1].run = "kill -TERM"
            /\ \A i \in KillRuns("kill -KILL") :
                  /\ i = 4
                  /\ ~SigtermFailed
                  /\ kill_trace[2].run = "sleep"
                  /\ kill_trace[3].run = "ps -p"
                  /\ host.process \in {"ignores_term", "exits_late"}
                  /\ kill_trace[i].pid = kill_trace[1].pid
            /\ (kill_process_ret # None /\ SigtermFailed)
                  => /\ KillRuns("kill -KILL") = {}
                     /\ ~Unwrap(kill_process_ret).ok
                     /\ (host.kill_spawns /\ host.process = "missing")
                           => Unwrap(kill_process_ret).error
                                 = ProcessNotFound(Unwrap(host.check.value).pid)
            /\ (kill_process_ret # None /\ ~SigtermFailed /\ host.ps_spawns
                    /\ host.process = "exits_on_term")
                  => /\ KillRuns("kill -KILL") = {}
                     /\ Unwrap(kill_process_ret) = Ok(None)

\* kill_process has returned Ok after SIGTERM, the wait, the look for the
\* process and SIGKILL
C37_Witness ==
    /\ kill_process_ret = Some(Ok(None))
    /\ Len(kill_trace) = 4
    /\ kill_trace[4].run = "kill -KILL"

\* kill_process has returned ProcessNotFound for a missing process
C37_WitnessMissing ==
    /\ kill_process_ret = Some(Err(ProcessNotFound(1)))
    /\ Len(kill_trace) = 1

(***************************************************************************)
(* C38: KillCommand kills a process only if check_port returned an owner   *)
(* and either force was given or the user confirmed at the prompt; when    *)
(* the port is not in use it returns PortNotFound(port) without attempting *)
(* a kill; when the user declines it returns success without attempting a  *)
(* kill.                                                                   *)
(***************************************************************************)
\* kill_process has been called
KillAttempted ==
    \/ kill_pc \in {"sigterm", "sleep", "exists", "sigkill", "report"}
    \/ kill_process_ret # None

KillHasOwner ==
    /\ Unwrap(kill_host).check.ok
    /\ Unwrap(kill_host).check.value # None

\* C38 as stated: a kill is attempted only with an owner and with force or
\* the user's confirmation
C38_KillsOnlyForcedOrConfirmed ==
    KillAttempted
        => /\ KillHasOwner
           /\ kill_args.force \/ kill_confirmed = Some(TRUE)

\* C38 (amended): a kill is attempted only with an owner and with force,
\* JSON output, or the user's confirmation; the prompt is shown only
\* without force and JSON output; a port that is not in use gives
\* PortNotFound(port) and a declined prompt gives Ok, both without a kill
C38_KillsOnlyForcedJsonOrConfirmed ==
    kill_host # None =>
        /\ KillAttempted
              => /\ KillHasOwner
                 /\ kill_args.force \/ kill_args.json \/ kill_confirmed = Some(TRUE)
        /\ kill_confirmed # None => ~kill_args.force /\ ~kill_args.json
        /\ (kill_pc = "done" /\ Unwrap(kill_host).check = Ok(None))
              => /\ kill_ret = Some(Err(PortNotFound(kill_args.port)))
                 /\ ~KillAttempted
                 /\ kill_trace = <<>>
        /\ (kill_pc = "done" /\ kill_confirmed = Some(FALSE))
              => /\ kill_ret = Some(Ok(None))
                 /\ ~KillAttempted
                 /\ kill_trace = <<>>

\* the run is over: with JSON output and without force the process was
\* killed and nobody was asked
C38_Witness ==
    /\ kill_pc = "done"
    /\ kill_args.json
    /\ ~kill_args.force
    /\ kill_confirmed = None
    /\ kill_ret = Some(Ok(None))
    /\ kill_trace # <<>>

\* the user declined
C38_WitnessDeclined ==
    /\ kill_pc = "done"
    /\ kill_confirmed = Some(FALSE)
    /\ kill_ret = Some(Ok(None))

====
